---- MODULE Spec2Model ----
(***************************************************************************)
(* freescout-notifier: the notification decision engine.                   *)
(*                                                                         *)
(* One evaluation pass (Notifier.Run) of one process, the SQLite           *)
(* notification store it shares with the other processes, the business     *)
(* hours oracle and the queued-notification flusher.                       *)
(*                                                                         *)
(* Time is counted in whole minutes since an epoch that is a Sunday,       *)
(* 00:00 UTC.  The store's CURRENT_TIMESTAMP / datetime('now') and Go's     *)
(* time.Now() read the same clock, `now`.                                   *)
(***************************************************************************)
EXTENDS Integers, Sequences, FiniteSets, TLC

VARIABLES
    cfg,            \* config.Config of the deployment (every process runs with it)
    now,            \* the wall clock, minutes since the epoch (UTC)
    horizon,        \* the instant the clock of this behaviour stops at
    procs,          \* the processes that may run a pass
    conversations,  \* the tickets of the help desk's table conversations
    faults,         \* whether the store, the transport and the ticket source may fail
    notifications,  \* table notifications: a set of rows
    business_hours_log, \* table business_hours_log: a sequence of rows
    pc,             \* pc[p]: where process p stands in Run
    isBusinessHours,\* Run's local isBusinessHours, per process
    isStartOfDay,   \* Run's local isStartOfDay, per process
    stats,          \* Run's *models.RunStats, per process
    rows,           \* sendQueuedNotifications' result set still to iterate, per process
    sent,           \* sendQueuedNotifications' local sent, per process
    allTickets,     \* Run's candidates still to process, per process
    runErr,         \* the error Run returned for the last pass of a process
    sends,          \* history: per key, the instant of the last successful send
    obs,            \* history: per process, what its pass did to the ticket at hand
    twin,           \* the store a normal and a dry-run pass are compared from
    slack,          \* the slack.Client and its SendMessage call in flight
    duration,       \* the formatDuration call last made on its own
    sweep           \* history: the last retention sweep and the records it deleted

vars == <<cfg, now, horizon, procs, conversations, faults, notifications,
          business_hours_log, pc, isBusinessHours, isStartOfDay, stats, rows, sent,
          allTickets, runErr, sends, obs, twin, slack, duration, sweep>>

----------------------------------------------------------------------------
(* Bounds of the model *)

\* how many minutes the clock may advance after the initial instant
MaxElapsed == 1
\* how many business days after the initial one a behaviour may go on to
MaxDays == 2
\* the longest wait, in minutes, formatDuration is called with on its own
MaxMinutes == 185

\* the largest --retention-days a retention sweep is run with
MaxRetentionDays == 1

\* the largest --slack-retry-attempts a deployment is configured with
MaxRetryAttempts == 3

\* the configured cooldowns, in minutes
Cooldowns == {0, 1}
\* the configured max-notifications-per-run
Caps == {1, 2}
\* the tickets of the ticket source
TicketIds == {1, 2}

----------------------------------------------------------------------------
(* Program constants *)

\* SQL NULL / a nil pointer / an invalid sql.NullTime
NULL == -1

\* --business-hours-start, --business-hours-end defaults
DefaultStartHour == 9
DefaultEndHour == 17
\* offset of the default --business-hours-timezone (America/Chicago, CST), minutes
TzOffset == -360
\* --open-threshold and --pending-threshold defaults, minutes
OpenThreshold == 120
PendingThreshold == 1440
\* look-back of the two candidate queries, minutes (7 days, 30 days)
OpenLookback == 10080
PendingLookback == 43200
\* the first minutes of the start hour that form the start-of-day window
StartOfDayMinutes == 5

MinutesPerHour == 60
HoursPerDay == 24
DaysPerWeek == 7

\* models.NotificationType
OpenNoAgentResponse == "open_no_agent_response"
PendingNoCustomerResponse == "pending_no_customer_response"
NotificationTypes == {OpenNoAgentResponse, PendingNoCustomerResponse}

\* models.NotificationStatus
StatusPending == "pending"
StatusQueued == "queued"
StatusSent == "sent"

\* time.Weekday: Sunday = 0 ... Saturday = 6; --business-hours-days default "1,2,3,4,5"
DefaultWorkDays == {1, 2, 3, 4, 5}

----------------------------------------------------------------------------
(* The business hours oracle *)

\* t.In(bh.timezone): the local wall clock of instant t, minutes since the epoch
LocalTime(t) == t + cfg.timezone

LocalDate(t) == LocalTime(t) \div (MinutesPerHour * HoursPerDay)
LocalWeekday(t) == LocalDate(t) % DaysPerWeek
LocalHour(t) == (LocalTime(t) \div MinutesPerHour) % HoursPerDay
LocalMinute(t) == LocalTime(t) % MinutesPerHour

\* the instant whose local wall clock reads day d, h:m
Instant(d, h, m) == (d * HoursPerDay + h) * MinutesPerHour + m - TzOffset

\* a variant whose hour range includes its end: hour <= bh.endHour
IsBusinessHoursThroughEnd(t) ==
    IF ~cfg.enabled THEN TRUE
    ELSE IF LocalDate(t) \in cfg.holidays THEN FALSE
    ELSE IF LocalWeekday(t) \notin cfg.workDays THEN FALSE
    ELSE LocalHour(t) >= cfg.startHour /\ LocalHour(t) <= cfg.endHour

IsBusinessHours(t) ==
    IF ~cfg.enabled THEN TRUE
    ELSE IF LocalDate(t) \in cfg.holidays THEN FALSE
    ELSE IF LocalWeekday(t) \notin cfg.workDays THEN FALSE
    ELSE LocalHour(t) >= cfg.startHour /\ LocalHour(t) < cfg.endHour

\* a variant whose start-of-day window includes minute 5: localTime.Minute() <= 5
IsStartOfDayThroughFive(t) ==
    IF ~cfg.enabled \/ ~cfg.notifyOnOpen THEN FALSE
    ELSE IF ~IsBusinessHours(t) THEN FALSE
    ELSE LocalHour(t) = cfg.startHour /\ LocalMinute(t) <= StartOfDayMinutes

\* a variant that looks at the clock only: the start hour's first minutes of any day
IsStartOfDayByClock(t) ==
    IF ~cfg.enabled \/ ~cfg.notifyOnOpen THEN FALSE
    ELSE LocalHour(t) = cfg.startHour /\ LocalMinute(t) < StartOfDayMinutes

IsStartOfBusinessDay(t) ==
    IF ~cfg.enabled \/ ~cfg.notifyOnOpen THEN FALSE
    ELSE IF ~IsBusinessHours(t) THEN FALSE
    ELSE LocalHour(t) = cfg.startHour /\ LocalMinute(t) < StartOfDayMinutes

----------------------------------------------------------------------------
(* The ticket source (read-only, external) *)

\* conversations.last_reply_from: 1 = customer, 2 = agent; odd tickets were last
\* answered by the customer, even tickets by an agent
LastReplyFrom(id) == IF id % 2 = 1 THEN 1 ELSE 2

\* the category whose query can select the ticket (last_reply_from = 1 / = 2)
CategoryOf(id) ==
    IF LastReplyFrom(id) = 1 THEN OpenNoAgentResponse ELSE PendingNoCustomerResponse

\* conversations.last_reply_at of a ticket: a fixed instant before the epoch, old
\* enough for both thresholds and inside both look-back windows
LastReplyAt(id) == 0 - (1000 * id)

\* TIMESTAMPDIFF(MINUTE, c.last_reply_at, NOW())
MinutesSinceReply(id, t) == t - LastReplyAt(id)

\* the WHERE clause on last_reply_at of the two candidate queries
WithinWindow(id, threshold, lookback, t) ==
    /\ LastReplyAt(id) < t - threshold
    /\ LastReplyAt(id) > t - lookback

\* c.user_id: ticket 1 is unassigned, every other ticket is assigned to user 7
AssignedUserID(id) == IF id = 1 THEN NULL ELSE 7

\* CONCAT(COALESCE(u.first_name, ''), ' ', COALESCE(u.last_name, '')) over the LEFT JOIN
\* (a text is the sequence of its characters)
AssignedUserName(id) ==
    IF AssignedUserID(id) = NULL THEN <<" ">> ELSE <<"A", "n", "n", " ", "L", "e", "e">>

\* c.subject, c.customer_email and the customer's name: texts with the characters
\* json.Marshal escapes
SubjectOf(id) ==
    IF id = 1 THEN <<"R", "&", "D">> ELSE <<"a", "<", "b", ">", "\"", "c", "\\">>
CustomerEmailOf(id) == IF id = 1 THEN <<"j", "@", "x">> ELSE <<"m", "@", "x">>
CustomerNameOf(id) ==
    IF id = 1 THEN <<"J", "o", " ", "K">> ELSE <<"M", " ", "&", " ", "C", "o">>

\* scanTickets: one models.Ticket per row, tagged with the query's category
Ticket(id, type, t) ==
    [ID |-> id,
     Number |-> 100 + id,
     Subject |-> SubjectOf(id),
     CustomerEmail |-> CustomerEmailOf(id),
     CustomerName |-> CustomerNameOf(id),
     AssignedUserID |-> AssignedUserID(id),
     AssignedUserName |-> AssignedUserName(id),
     LastReplyAt |-> LastReplyAt(id),
     MinutesSinceReply |-> MinutesSinceReply(id, t),
     MailboxID |-> 1,
     NotificationType |-> type]

\* the elements of a finite set of tickets as the sequences ORDER BY last_reply_at ASC
\* may return
RECURSIVE OrderedByLastReply(_)
OrderedByLastReply(S) ==
    IF S = {} THEN {<<>>}
    ELSE LET firsts == {x \in S : \A y \in S : x.LastReplyAt <= y.LastReplyAt}
         IN UNION {{<<x>> \o rest : rest \in OrderedByLastReply(S \ {x})} : x \in firsts}

\* GetOpenTicketsNeedingAttention / GetPendingTicketsNeedingAttention: the result
\* sets the source may return at instant t when the tickets `ids` are in the
\* status the query selects
QueryTickets(ids, type, threshold, lookback, t) ==
    OrderedByLastReply({Ticket(id, type, t) :
                          id \in {i \in ids : WithinWindow(i, threshold, lookback, t)}})

----------------------------------------------------------------------------
(* The notification store *)

Keys == TicketIds \X NotificationTypes

KeyOf(ticket) == <<ticket.ID, ticket.NotificationType>>

\* the decimal digits
Digits == <<"0", "1", "2", "3", "4", "5", "6", "7", "8", "9">>

\* the digit a character stands for
DigitValue(c) == CHOOSE d \in 0..9 : Digits[d + 1] = c

\* encoding/json on an int: its decimal text
RECURSIVE EncodeNat(_)
EncodeNat(n) ==
    IF n < 10 THEN <<Digits[n + 1]>> ELSE Append(EncodeNat(n \div 10), Digits[(n % 10) + 1])

EncodeInt(n) == IF n < 0 THEN <<"-">> \o EncodeNat(0 - n) ELSE EncodeNat(n)

\* encoding/json into an int: the number a decimal text denotes
RECURSIVE DecodeNat(_)
DecodeNat(s) ==
    IF Len(s) = 0 THEN 0
    ELSE (DecodeNat(SubSeq(s, 1, Len(s) - 1)) * 10) + DigitValue(s[Len(s)])

DecodeInt(s) == IF s[1] = "-" THEN 0 - DecodeNat(Tail(s)) ELSE DecodeNat(s)

\* encoding/json on a *int: null for the nil pointer
JsonNull == <<"n", "u", "l", "l">>
EncodePointer(v) == IF v = NULL THEN JsonNull ELSE EncodeInt(v)
DecodePointer(s) == IF s = JsonNull THEN NULL ELSE DecodeInt(s)

\* the characters json.Marshal writes as \u00XX (its HTML escaping), and their
\* four hexadecimal digits
HtmlRunes == {"<", ">", "&"}
UnicodeEscape(c) ==
    CASE c = "<" -> <<"0", "0", "3", "c">>
      [] c = ">" -> <<"0", "0", "3", "e">>
      [] c = "&" -> <<"0", "0", "2", "6">>
RuneOf(hex) == CHOOSE c \in HtmlRunes : UnicodeEscape(c) = hex

\* encoding/json on one character of a string
EscapeRune(c) ==
    IF c = "\"" \/ c = "\\" THEN <<"\\", c>>
    ELSE IF c \in HtmlRunes THEN <<"\\", "u">> \o UnicodeEscape(c)
    ELSE <<c>>

RECURSIVE Escape(_)
Escape(s) == IF Len(s) = 0 THEN <<>> ELSE EscapeRune(s[1]) \o Escape(Tail(s))

\* encoding/json on a string: the quoted, escaped text
EncodeString(s) == <<"\"">> \o Escape(s) \o <<"\"">>

\* a variant that copies \u escapes through undecoded
RECURSIVE UnescapeKeepsUnicode(_)
UnescapeKeepsUnicode(s) ==
    IF Len(s) = 0 THEN <<>>
    ELSE IF s[1] # "\\" THEN <<s[1]>> \o UnescapeKeepsUnicode(Tail(s))
    ELSE IF s[2] = "u" THEN <<"\\", "u">> \o UnescapeKeepsUnicode(SubSeq(s, 3, Len(s)))
    ELSE <<s[2]>> \o UnescapeKeepsUnicode(SubSeq(s, 3, Len(s)))

\* encoding/json reading the inside of a quoted text
RECURSIVE Unescape(_)
Unescape(s) ==
    IF Len(s) = 0 THEN <<>>
    ELSE IF s[1] # "\\" THEN <<s[1]>> \o Unescape(Tail(s))
    ELSE IF s[2] = "u" THEN <<RuneOf(SubSeq(s, 3, 6))>> \o Unescape(SubSeq(s, 7, Len(s)))
    ELSE <<s[2]>> \o Unescape(SubSeq(s, 3, Len(s)))

\* encoding/json into a string
DecodeString(v) == Unescape(SubSeq(v, 2, Len(v) - 1))

\* encoding/json on a models.NotificationType: one of two identifiers, quoted
EncodeType(type) == <<"\"", type, "\"">>
DecodeType(v) == v[2]

\* json.Marshal(ticket): the object's members in field order, each with the text of
\* its value (LastReplyAt by the instant its text denotes)
Marshal(ticket) ==
    <<<<"ID", EncodeInt(ticket.ID)>>, <<"Number", EncodeInt(ticket.Number)>>,
      <<"Subject", EncodeString(ticket.Subject)>>,
      <<"CustomerEmail", EncodeString(ticket.CustomerEmail)>>,
      <<"CustomerName", EncodeString(ticket.CustomerName)>>,
      <<"AssignedUserID", EncodePointer(ticket.AssignedUserID)>>,
      <<"AssignedUserName", EncodeString(ticket.AssignedUserName)>>,
      <<"LastReplyAt", EncodeInt(ticket.LastReplyAt)>>,
      <<"MinutesSinceReply", EncodeInt(ticket.MinutesSinceReply)>>,
      <<"MailboxID", EncodeInt(ticket.MailboxID)>>,
      <<"NotificationType", EncodeType(ticket.NotificationType)>>>>

\* the text of member `name` of a marshalled object
Member(data, name) ==
    LET i == CHOOSE j \in 1..Len(data) : data[j][1] = name IN data[i][2]

\* whether json.Unmarshal([]byte(ticketData), &ticket) succeeds
\* (the empty text is not a JSON value)
Wellformed(data) == Len(data) > 0

\* json.Unmarshal into a models.Ticket
Unmarshal(data) ==
    [ID |-> DecodeInt(Member(data, "ID")),
     Number |-> DecodeInt(Member(data, "Number")),
     Subject |-> DecodeString(Member(data, "Subject")),
     CustomerEmail |-> DecodeString(Member(data, "CustomerEmail")),
     CustomerName |-> DecodeString(Member(data, "CustomerName")),
     AssignedUserID |-> DecodePointer(Member(data, "AssignedUserID")),
     AssignedUserName |-> DecodeString(Member(data, "AssignedUserName")),
     LastReplyAt |-> DecodeInt(Member(data, "LastReplyAt")),
     MinutesSinceReply |-> DecodeInt(Member(data, "MinutesSinceReply")),
     MailboxID |-> DecodeInt(Member(data, "MailboxID")),
     NotificationType |-> DecodeType(Member(data, "NotificationType"))]

\* formatDuration of a whole number of minutes
formatDuration(minutes) ==
    LET hours == minutes \div 60
        rest == minutes % 60
    IN IF minutes < 60 THEN EncodeInt(minutes) \o <<" minutes">>
       ELSE IF hours = 1
       THEN IF rest = 0 THEN <<"1 hour">>
            ELSE <<"1 hour ">> \o EncodeInt(rest) \o <<" minutes">>
       ELSE IF rest = 0 THEN EncodeInt(hours) \o <<" hours">>
       ELSE EncodeInt(hours) \o <<" hours ">> \o EncodeInt(rest) \o <<" minutes">>

\* formatSlackMessage: the text of the message, its literal parts as they stand
\* (the configured FreeScout URL, the same in every message of a pass, left out)
formatSlackMessage(ticket) ==
    LET pending == ticket.NotificationType = PendingNoCustomerResponse
        emoji == IF pending THEN "hourglass" ELSE "siren"
        action == IF pending THEN "waiting for customer" ELSE "needs attention"
        waitingFor == IF pending THEN "customer response" ELSE "agent response"
    IN <<emoji, " Ticket #">> \o EncodeInt(ticket.Number) \o <<" ", action, "\n">>
       \o <<"*Subject:* ">> \o ticket.Subject \o <<"\n">>
       \o <<"*Customer:* ">> \o ticket.CustomerName \o <<"\n">>
       \o <<"*Waiting for:* ", waitingFor, " for ">>
       \o formatDuration(ticket.MinutesSinceReply) \o <<"\n">>
       \o (IF ticket.AssignedUserName # <<>>
           THEN <<"*Assigned to:* ">> \o ticket.AssignedUserName \o <<"\n">>
           ELSE <<"*Assigned to:* Unassigned\n">>)
       \o <<"*View ticket:* <", "/conversation/">> \o EncodeInt(ticket.Number)
       \o <<"|Open in FreeScout>">>

\* the rows of a (ticket_id, notification_type) key
RowsOf(table, key) ==
    {r \in table : r.ticket_id = key[1] /\ r.notification_type = key[2]}

\* COALESCE(sent_at, queued_at, first_eligible_at)
Coalesce(r) ==
    IF r.sent_at # NULL THEN r.sent_at
    ELSE IF r.queued_at # NULL THEN r.queued_at
    ELSE r.first_eligible_at

\* ORDER BY COALESCE(...) DESC LIMIT 1 over a non-empty set of rows
MostRecent(rs) == CHOOSE r \in rs : \A q \in rs : Coalesce(q) <= Coalesce(r)

\* a variant whose window includes its end: !time.Now().After(cooldownExpiry)
InCooldownInclusive(sentAt, t) == t <= sentAt + cfg.cooldown

\* time.Now().Before(sentAt.Time.Add(n.config.CooldownPeriod))
InCooldown(sentAt, t) == t < sentAt + cfg.cooldown

\* a variant without the status test of lines 147-150: the cooldown alone decides
shouldSkipCooldownOnly(table, ticket, t) ==
    LET rs == RowsOf(table, KeyOf(ticket))
    IN IF rs = {} THEN FALSE
       ELSE LET r == MostRecent(rs)
            IN IF r.sent_at # NULL THEN InCooldown(r.sent_at, t) ELSE FALSE

\* a variant without the cooldown test of lines 152-158: the status alone decides
shouldSkipQueuedOnly(table, ticket, t) ==
    LET rs == RowsOf(table, KeyOf(ticket))
    IN IF rs = {} THEN FALSE
       ELSE MostRecent(rs).notification_status = StatusQueued

\* shouldSkipTicket's answer at instant t when the lookup succeeds
shouldSkipTicket(table, ticket, t) ==
    LET rs == RowsOf(table, KeyOf(ticket))
    IN IF rs = {} THEN FALSE
       ELSE LET r == MostRecent(rs)
            IN IF r.notification_status = StatusQueued THEN TRUE
               ELSE IF r.sent_at # NULL THEN InCooldown(r.sent_at, t)
               ELSE FALSE

\* a variant without the WHERE clause: every conflicting row is updated
UpsertUnguarded(r, t) == TRUE

\* a variant whose WHERE clause leaves the cooldown out: sent_at < datetime('now')
UpsertGuardNoCooldown(r, t) == r.sent_at = NULL \/ r.sent_at < t

\* the WHERE clause of the upsert's DO UPDATE:
\* notifications.sent_at IS NULL OR notifications.sent_at < datetime('now', '-C seconds')
UpsertGuard(r, t) == r.sent_at = NULL \/ r.sent_at < t - cfg.cooldown

\* recordNotification's thresholdMinutes
ThresholdMinutes(ticket) ==
    IF ticket.NotificationType = PendingNoCustomerResponse
    THEN cfg.pendingThreshold ELSE cfg.openThreshold

\* INTEGER PRIMARY KEY AUTOINCREMENT
NextId(table) ==
    IF table = {} THEN 1
    ELSE 1 + (CHOOSE m \in {r.id : r \in table} : \A r \in table : r.id <= m)

\* a variant that binds no sent_at parameter: the inserted row is never stamped
InsertedRowUnstamped(table, ticket, status, t) ==
    [id |-> NextId(table),
     ticket_id |-> ticket.ID,
     notification_type |-> ticket.NotificationType,
     notification_status |-> status,
     first_eligible_at |-> t,
     queued_at |-> IF status = StatusQueued THEN t ELSE NULL,
     sent_at |-> NULL,
     ticket_subject |-> ticket.Subject,
     customer_name |-> ticket.CustomerName,
     assigned_user |-> ticket.AssignedUserName,
     minutes_waiting |-> ticket.MinutesSinceReply,
     threshold_minutes |-> ThresholdMinutes(ticket),
     ticket_data |-> Marshal(ticket)]

\* the row the INSERT of recordNotification adds when no row conflicts
InsertedRow(table, ticket, status, t) ==
    [id |-> NextId(table),
     ticket_id |-> ticket.ID,
     notification_type |-> ticket.NotificationType,
     notification_status |-> status,
     first_eligible_at |-> t,
     queued_at |-> IF status = StatusQueued THEN t ELSE NULL,
     sent_at |-> IF status = StatusSent THEN t ELSE NULL,
     ticket_subject |-> ticket.Subject,
     customer_name |-> ticket.CustomerName,
     assigned_user |-> ticket.AssignedUserName,
     minutes_waiting |-> ticket.MinutesSinceReply,
     threshold_minutes |-> ThresholdMinutes(ticket),
     ticket_data |-> Marshal(ticket)]

\* a variant that binds both timestamps as the INSERT does: the one that does not
\* match the status is overwritten with NULL
UpdatedRowBindsBoth(r, ticket, status, t) ==
    [r EXCEPT !.notification_status = status,
              !.ticket_subject = ticket.Subject,
              !.customer_name = ticket.CustomerName,
              !.assigned_user = ticket.AssignedUserName,
              !.minutes_waiting = ticket.MinutesSinceReply,
              !.ticket_data = Marshal(ticket),
              !.queued_at = IF status = StatusQueued THEN t ELSE NULL,
              !.sent_at = IF status = StatusSent THEN t ELSE NULL]

\* the DO UPDATE SET of recordNotification applied to a conflicting row
UpdatedRow(r, ticket, status, t) ==
    [r EXCEPT !.notification_status = status,
              !.ticket_subject = ticket.Subject,
              !.customer_name = ticket.CustomerName,
              !.assigned_user = ticket.AssignedUserName,
              !.minutes_waiting = ticket.MinutesSinceReply,
              !.ticket_data = Marshal(ticket),
              !.queued_at = IF status = StatusQueued THEN t ELSE @,
              !.sent_at = IF status = StatusSent THEN t ELSE @]

\* whether the statement of recordNotification writes a row at instant t: it inserts,
\* or the conflicting row passes the guard
Applied(table, ticket, t) ==
    \A r \in RowsOf(table, KeyOf(ticket)) : UpsertGuard(r, t)

\* a variant without the UNIQUE constraint and its ON CONFLICT clause: a plain INSERT
recordNotificationInsertOnly(table, ticket, status, t) ==
    table \cup {InsertedRow(table, ticket, status, t)}

\* the table after recordNotification(ticket, status) executed at instant t:
\* INSERT ... ON CONFLICT(ticket_id, notification_type) DO UPDATE ... WHERE guard
recordNotification(table, ticket, status, t) ==
    LET conflict == RowsOf(table, KeyOf(ticket))
    IN IF conflict = {}
       THEN table \cup {InsertedRow(table, ticket, status, t)}
       ELSE {IF r \in conflict /\ UpsertGuard(r, t)
             THEN UpdatedRow(r, ticket, status, t) ELSE r : r \in table}

\* a variant that orders by queued_at DESC: the newest rows first
RECURSIVE OrderedNewestFirst(_)
OrderedNewestFirst(S) ==
    IF S = {} THEN {<<>>}
    ELSE LET firsts == {x \in S : \A y \in S : x.queued_at >= y.queued_at}
         IN UNION {{<<x>> \o rest : rest \in OrderedNewestFirst(S \ {x})} : x \in firsts}

\* the sequences a finite set of rows may come out as under ORDER BY queued_at ASC
RECURSIVE OrderedByQueuedAt(_)
OrderedByQueuedAt(S) ==
    IF S = {} THEN {<<>>}
    ELSE LET firsts == {x \in S : \A y \in S : x.queued_at <= y.queued_at}
         IN UNION {{<<x>> \o rest : rest \in OrderedByQueuedAt(S \ {x})} : x \in firsts}

\* a variant that takes the rows after the first n: the oldest rows are never taken
LimitSkipsOldest(s, n) == SubSeq(s, n + 1, Len(s))

\* the first n elements of a sequence (LIMIT n)
Limit(s, n) == SubSeq(s, 1, IF Len(s) < n THEN Len(s) ELSE n)

\* the result sets of sendQueuedNotifications' SELECT ... WHERE notification_status =
\* 'queued' ORDER BY queued_at ASC LIMIT max: (ticket_id, notification_type, ticket_data)
QueuedRows(table, max) ==
    {Limit([i \in 1..Len(s) |->
              [ticket_id |-> s[i].ticket_id,
               notification_type |-> s[i].notification_type,
               ticket_data |-> s[i].ticket_data]], max) :
       s \in OrderedByQueuedAt({r \in table : r.notification_status = StatusQueued})}

\* a variant whose UPDATE stamps sent_at and leaves the status as it is
MarkSentStampOnly(table, key, t) ==
    {IF r \in RowsOf(table, key) THEN [r EXCEPT !.sent_at = t] ELSE r : r \in table}

\* the table after UPDATE notifications SET notification_status = 'sent',
\* sent_at = CURRENT_TIMESTAMP WHERE ticket_id = ? AND notification_type = ?
MarkSent(table, key, t) ==
    {IF r \in RowsOf(table, key)
     THEN [r EXCEPT !.notification_status = StatusSent, !.sent_at = t]
     ELSE r : r \in table}

\* a variant that logs one entry of count 1 whatever the batch sent
LogBurstOne(log, n, t) ==
    Append(log, [event_type |-> "burst_sent", event_time |-> t, notifications_sent |-> 1])

\* the table business_hours_log after INSERT ... VALUES ('burst_sent', n) at instant t
LogBurst(log, n, t) ==
    Append(log, [event_type |-> "burst_sent", event_time |-> t, notifications_sent |-> n])

----------------------------------------------------------------------------
(* Configurations and initial states *)

AllProcs == {1, 2}

\* the instants a behaviour may start at, as local wall clock of the default
\* timezone: a Monday one minute before opening, at opening, one minute before
\* closing, at closing, and a Sunday one minute before nine
BeforeOpening == Instant(1, DefaultStartHour - 1, 59)
Opening == Instant(1, DefaultStartHour, 0)
BeforeClosing == Instant(1, DefaultEndHour - 1, 59)
Closing == Instant(1, DefaultEndHour, 0)
SundayMorning == Instant(0, DefaultStartHour - 1, 59)

\* the configurations: the defaults of ParseFlags, with business hours on or off,
\* the start-of-day flush on or off, a cooldown of no or one minute, a flush cap of
\* one or two, dry-run or not (a disabled oracle ignores notifyOnOpen: one such
\* configuration stands for both)
Configs ==
    {c \in [enabled : BOOLEAN,
            notifyOnOpen : BOOLEAN,
            startHour : {DefaultStartHour},
            endHour : {DefaultEndHour},
            timezone : {TzOffset},
            workDays : {DefaultWorkDays},
            holidays : {{}},
            cooldown : Cooldowns,
            maxNotifications : Caps,
            openThreshold : {OpenThreshold},
            pendingThreshold : {PendingThreshold},
            dryRun : BOOLEAN] : c.enabled \/ c.notifyOnOpen}

\* where a behaviour of one process starts: a configuration, an instant, an empty
\* store, the tickets of the help desk, and whether the store, the transport and
\* the ticket source may fail.  Only the start-of-day flush tells the instants apart
\* once it is configured: every other configuration starts before opening on the
\* Monday.  The help desk has both tickets where nothing fails, ticket 1 where
\* anything may
Scenarios ==
    {s \in [cfg : Configs,
            at : {BeforeOpening, BeforeClosing, SundayMorning},
            backlog : {FALSE},
            conversations : {{1}, TicketIds},
            faults : BOOLEAN] :
       /\ (s.cfg.enabled /\ s.cfg.notifyOnOpen) \/ s.at = BeforeOpening
       /\ s.faults <=> (s.conversations = {1})}

\* where a behaviour of two processes starts: business hours and the flush
\* configured, not dry-run, ticket 1, nothing fails; at opening with the notification
\* a pass queued the minute before, or before closing with an empty store
OverlapScenarios ==
    {s \in [cfg : {c \in Configs : /\ c.enabled /\ c.notifyOnOpen
                                   /\ ~c.dryRun /\ c.maxNotifications = 1},
            at : {Opening, BeforeClosing},
            backlog : BOOLEAN,
            conversations : {{1}},
            faults : {FALSE}] :
       s.backlog <=> (s.at = Opening)}

\* the store a pass leaves that queued ticket 1 at instant t into an empty store
Backlog(t) ==
    recordNotification({}, Ticket(1, CategoryOf(1), t), StatusQueued, t)

\* the store a pass leaves that queued both tickets at instant t into an empty store
BacklogOfBoth(t) ==
    recordNotification(Backlog(t), Ticket(2, CategoryOf(2), t), StatusQueued, t)

\* &models.RunStats{}
ZeroStats ==
    [TicketsChecked |-> 0, NotificationsSent |-> 0, NotificationsQueued |-> 0, Errors |-> 0]

\* nothing observed yet of a ticket's evaluation: the key, the instant of the skip
\* check, the key's rows and the statistics at that instant, the transport calls and
\* the successful sends made for it, whether its upsert wrote a row, and how it
\* ended: "skipped", "sent" or "queued" (the upsert returned no error),
\* "lookupError", "transportError" or "storeError"; "eval" while it is going on
NoEval ==
    [key |-> <<0, "">>, at |-> NULL, pre |-> {}, before |-> ZeroStats,
     calls |-> 0, sends |-> 0, applied |-> FALSE, outcome |-> "none"]

\* nothing observed yet of a flush: how far it is, the keys whose send step
\* succeeded, the burst log when it began, whether a store write of it failed,
\* how many rate-limit delays it took
NoFlush ==
    [state |-> "none", delivered |-> {}, log0 |-> <<>>, storeErr |-> FALSE, delays |-> 0]

\* nothing observed yet of a pass: its transport calls, the candidates it skipped,
\* its current ticket, its flush
NoObs == [calls |-> 0, skipped |-> 0, ev |-> NoEval, flush |-> NoFlush]

\* no pass is being compared with its dry-run twin
NoTwin == [phase |-> "off", notifications |-> {}, business_hours_log |-> <<>>]

\* no slack.Client has been built
NoClient ==
    [pc |-> "none", retryAttempts |-> 0, urlOk |-> TRUE, attempt |-> 0, lastErr |-> "nil",
     outcomes |-> <<>>, slept |-> <<>>, result |-> "none", healthCheck |-> FALSE]

\* formatDuration has not been called on its own
NoDuration == [minutes |-> NULL, text |-> <<>>]

\* no retention sweep has run
NoSweep == [days |-> 0, at |-> NULL, deleted |-> {}]

\* the state before any pass: processes P, started as one of the scenarios S
InitWith(P, S) ==
    \E s \in S :
        /\ cfg = s.cfg
        /\ now = s.at
        /\ horizon = s.at + MaxElapsed
        /\ procs = P
        /\ conversations = s.conversations
        /\ faults = s.faults
        /\ notifications = IF ~s.backlog THEN {}
                           ELSE IF s.conversations = TicketIds THEN BacklogOfBoth(s.at - 1)
                           ELSE Backlog(s.at - 1)
        /\ business_hours_log = <<>>
        /\ pc = [p \in AllProcs |-> "idle"]
        /\ isBusinessHours = [p \in AllProcs |-> FALSE]
        /\ isStartOfDay = [p \in AllProcs |-> FALSE]
        /\ stats = [p \in AllProcs |-> ZeroStats]
        /\ rows = [p \in AllProcs |-> <<>>]
        /\ sent = [p \in AllProcs |-> 0]
        /\ allTickets = [p \in AllProcs |-> <<>>]
        /\ runErr = [p \in AllProcs |-> "nil"]
        /\ sends = [k \in Keys |-> NULL]
        /\ obs = [p \in AllProcs |-> NoObs]
        /\ twin = NoTwin
        /\ slack = NoClient
        /\ duration = NoDuration
        /\ sweep = NoSweep

\* passes never overlap: one process, whose next pass starts after the last ended
Init == InitWith({1}, Scenarios)

\* passes never overlap, and the store, the transport and the ticket source do not fail
InitNoFaults == InitWith({1}, {s \in Scenarios : ~s.faults})

\* a second process may start a pass while the first is still running
InitOverlap == InitWith(AllProcs, OverlapScenarios)

----------------------------------------------------------------------------
(* Notifier.Run, step by step *)

\* the deployment: fixed while the model runs
env == <<cfg, horizon, procs, conversations, faults, twin, slack, duration, sweep>>

\* a successful transport send for `key` at instant t, as history
Delivered(h, key, t) == [h EXCEPT ![key] = t]

\* Run, lines 35-57: read the clock, ask the oracle, choose the first step
StartRun(p) ==
    /\ pc[p] = "idle"
    /\ isBusinessHours' = [isBusinessHours EXCEPT ![p] = IsBusinessHours(now)]
    /\ isStartOfDay' = [isStartOfDay EXCEPT ![p] = IsStartOfBusinessDay(now)]
    /\ pc' = [pc EXCEPT ![p] = IF IsStartOfBusinessDay(now) THEN "flushQuery" ELSE "fetchOpen"]
    /\ UNCHANGED <<env, now, notifications, business_hours_log, stats, rows, sent,
                   allTickets, runErr, sends, obs>>

\* sendQueuedNotifications, lines 270-287: the SELECT; on failure Run counts an error
SendQueuedQuery(p) ==
    /\ pc[p] = "flushQuery"
    /\ \/ \E rs \in QueuedRows(notifications, cfg.maxNotifications) :
            /\ rows' = [rows EXCEPT ![p] = rs]
            /\ pc' = [pc EXCEPT ![p] = "flushItem"]
            /\ obs' = [obs EXCEPT ![p].flush.state = "running",
                                  ![p].flush.log0 = business_hours_log]
            /\ UNCHANGED stats
       \/ /\ faults
          /\ stats' = [stats EXCEPT ![p].Errors = @ + 1]
          /\ pc' = [pc EXCEPT ![p] = "fetchOpen"]
          /\ UNCHANGED <<rows, obs>>
    /\ UNCHANGED <<env, now, notifications, business_hours_log, isBusinessHours,
                   isStartOfDay, sent, allTickets, runErr, sends>>

\* a variant whose dry-run leaves the queued row alone instead of going on to the
\* UPDATE: `continue` in place of the skipped send
SendQueuedItemDrySkips(p) ==
    /\ pc[p] = "flushItem"
    /\ rows[p] # <<>>
    /\ LET data == Head(rows[p]).ticket_data
       IN IF ~Wellformed(data)
          THEN /\ rows' = [rows EXCEPT ![p] = Tail(@)]
               /\ UNCHANGED <<pc, obs, sends>>
          ELSE IF cfg.dryRun
          THEN /\ rows' = [rows EXCEPT ![p] = Tail(@)]
               /\ obs' = [obs EXCEPT ![p].flush.delivered = @ \cup {KeyOf(Unmarshal(data))}]
               /\ UNCHANGED <<pc, sends>>
          ELSE \/ /\ pc' = [pc EXCEPT ![p] = "flushMark"]
                  /\ sends' = Delivered(sends, KeyOf(Unmarshal(data)), now)
                  /\ obs' = [obs EXCEPT ![p].calls = @ + 1,
                                        ![p].flush.delivered = @ \cup {KeyOf(Unmarshal(data))}]
                  /\ UNCHANGED rows
               \/ /\ faults
                  /\ rows' = [rows EXCEPT ![p] = Tail(@)]
                  /\ obs' = [obs EXCEPT ![p].calls = @ + 1]
                  /\ UNCHANGED <<pc, sends>>
    /\ UNCHANGED <<env, now, notifications, business_hours_log, isBusinessHours,
                   isStartOfDay, stats, sent, allTickets, runErr>>

\* a variant without the `continue` after a failed send: the row goes on to the
\* UPDATE whether the transport took the message or not
SendQueuedItemMarksFailed(p) ==
    /\ pc[p] = "flushItem"
    /\ rows[p] # <<>>
    /\ LET data == Head(rows[p]).ticket_data
       IN IF ~Wellformed(data)
          THEN /\ rows' = [rows EXCEPT ![p] = Tail(@)]
               /\ UNCHANGED <<pc, obs, sends>>
          ELSE IF cfg.dryRun
          THEN /\ pc' = [pc EXCEPT ![p] = "flushMark"]
               /\ obs' = [obs EXCEPT ![p].flush.delivered = @ \cup {KeyOf(Unmarshal(data))}]
               /\ UNCHANGED <<rows, sends>>
          ELSE \/ /\ pc' = [pc EXCEPT ![p] = "flushMark"]
                  /\ sends' = Delivered(sends, KeyOf(Unmarshal(data)), now)
                  /\ obs' = [obs EXCEPT ![p].calls = @ + 1,
                                        ![p].flush.delivered = @ \cup {KeyOf(Unmarshal(data))}]
                  /\ UNCHANGED rows
               \/ /\ faults
                  /\ pc' = [pc EXCEPT ![p] = "flushMark"]
                  /\ obs' = [obs EXCEPT ![p].calls = @ + 1]
                  /\ UNCHANGED <<rows, sends>>
    /\ UNCHANGED <<env, now, notifications, business_hours_log, isBusinessHours,
                   isStartOfDay, stats, sent, allTickets, runErr>>

\* sendQueuedNotifications, lines 288-310: take the next row, unmarshal it, send it
SendQueuedItem(p) ==
    /\ pc[p] = "flushItem"
    /\ rows[p] # <<>>
    /\ LET data == Head(rows[p]).ticket_data
       IN IF ~Wellformed(data)
          THEN /\ rows' = [rows EXCEPT ![p] = Tail(@)]
               /\ UNCHANGED <<pc, obs, sends>>
          ELSE IF cfg.dryRun
          THEN /\ pc' = [pc EXCEPT ![p] = "flushMark"]
               /\ obs' = [obs EXCEPT ![p].flush.delivered = @ \cup {KeyOf(Unmarshal(data))}]
               /\ UNCHANGED <<rows, sends>>
          ELSE \/ /\ pc' = [pc EXCEPT ![p] = "flushMark"]
                  /\ sends' = Delivered(sends, KeyOf(Unmarshal(data)), now)
                  /\ obs' = [obs EXCEPT ![p].calls = @ + 1,
                                        ![p].flush.delivered = @ \cup {KeyOf(Unmarshal(data))}]
                  /\ UNCHANGED rows
               \/ /\ faults
                  /\ rows' = [rows EXCEPT ![p] = Tail(@)]
                  /\ obs' = [obs EXCEPT ![p].calls = @ + 1]
                  /\ UNCHANGED <<pc, sends>>
    /\ UNCHANGED <<env, now, notifications, business_hours_log, isBusinessHours,
                   isStartOfDay, stats, sent, allTickets, runErr>>

\* sendQueuedNotifications, lines 312-329: the UPDATE to sent, then sent++ and the
\* rate-limit delay (time.Sleep of two seconds, counted)
SendQueuedMark(p) ==
    /\ pc[p] = "flushMark"
    /\ LET item == Head(rows[p])
       IN \/ /\ notifications' =
                    MarkSent(notifications, <<item.ticket_id, item.notification_type>>, now)
             /\ sent' = [sent EXCEPT ![p] = @ + 1]
             /\ obs' = [obs EXCEPT ![p].flush.delays =
                                      IF sent[p] + 1 < cfg.maxNotifications THEN @ + 1 ELSE @]
          \/ /\ faults
             /\ obs' = [obs EXCEPT ![p].flush.storeErr = TRUE]
             /\ UNCHANGED <<notifications, sent>>
    /\ rows' = [rows EXCEPT ![p] = Tail(@)]
    /\ pc' = [pc EXCEPT ![p] = "flushItem"]
    /\ UNCHANGED <<env, now, business_hours_log, isBusinessHours, isStartOfDay, stats,
                   allTickets, runErr, sends>>

\* a variant of Run that drops the number the flusher returns
SendQueuedLogDropsCount(p) ==
    /\ pc[p] = "flushItem"
    /\ rows[p] = <<>>
    /\ IF sent[p] > 0
       THEN \/ /\ business_hours_log' = LogBurst(business_hours_log, sent[p], now)
               /\ obs' = [obs EXCEPT ![p].flush.state = "done"]
            \/ /\ faults
               /\ obs' = [obs EXCEPT ![p].flush.state = "done", ![p].flush.storeErr = TRUE]
               /\ UNCHANGED business_hours_log
       ELSE /\ obs' = [obs EXCEPT ![p].flush.state = "done"]
            /\ UNCHANGED business_hours_log
    /\ UNCHANGED stats
    /\ pc' = [pc EXCEPT ![p] = "fetchOpen"]
    /\ UNCHANGED <<env, now, notifications, isBusinessHours, isStartOfDay, rows, sent,
                   allTickets, runErr, sends>>

\* sendQueuedNotifications, lines 331-343, and Run, lines 54-56: log the burst,
\* return sent, add it to the run's statistics
SendQueuedLog(p) ==
    /\ pc[p] = "flushItem"
    /\ rows[p] = <<>>
    /\ IF sent[p] > 0
       THEN \/ /\ business_hours_log' = LogBurst(business_hours_log, sent[p], now)
               /\ obs' = [obs EXCEPT ![p].flush.state = "done"]
            \/ /\ faults
               /\ obs' = [obs EXCEPT ![p].flush.state = "done", ![p].flush.storeErr = TRUE]
               /\ UNCHANGED business_hours_log
       ELSE /\ obs' = [obs EXCEPT ![p].flush.state = "done"]
            /\ UNCHANGED business_hours_log
    /\ stats' = [stats EXCEPT ![p].NotificationsSent = @ + sent[p]]
    /\ pc' = [pc EXCEPT ![p] = "fetchOpen"]
    /\ UNCHANGED <<env, now, notifications, isBusinessHours, isStartOfDay, rows, sent,
                   allTickets, runErr, sends>>

\* Run, lines 59-64: fetch the open candidates; a failure aborts the pass
FetchOpen(p) ==
    /\ pc[p] = "fetchOpen"
    /\ \/ \E ids \in SUBSET {i \in conversations : CategoryOf(i) = OpenNoAgentResponse} :
          \E ts \in QueryTickets(ids, OpenNoAgentResponse, cfg.openThreshold,
                                 OpenLookback, now) :
            /\ allTickets' = [allTickets EXCEPT ![p] = ts]
            /\ stats' = [stats EXCEPT ![p].TicketsChecked = @ + Len(ts)]
            /\ pc' = [pc EXCEPT ![p] = "fetchPending"]
            /\ UNCHANGED runErr
       \/ /\ faults
          /\ runErr' = [runErr EXCEPT ![p] = "failed to get open tickets"]
          /\ pc' = [pc EXCEPT ![p] = "done"]
          /\ UNCHANGED <<allTickets, stats>>
    /\ UNCHANGED <<env, now, notifications, business_hours_log, isBusinessHours,
                   isStartOfDay, rows, sent, sends, obs>>

\* a variant that notes the failure of the pending fetch and goes on to process the
\* open candidates it has
FetchPendingKeepsOpen(p) ==
    /\ pc[p] = "fetchPending"
    /\ \/ \E ids \in SUBSET {i \in conversations : CategoryOf(i) = PendingNoCustomerResponse} :
          \E ts \in QueryTickets(ids, PendingNoCustomerResponse, cfg.pendingThreshold,
                                 PendingLookback, now) :
            /\ allTickets' = [allTickets EXCEPT ![p] = @ \o ts]
            /\ stats' = [stats EXCEPT ![p].TicketsChecked = @ + Len(ts)]
            /\ pc' = [pc EXCEPT ![p] = IF allTickets[p] \o ts = <<>> THEN "done" ELSE "process"]
            /\ UNCHANGED runErr
       \/ /\ faults
          /\ runErr' = [runErr EXCEPT ![p] = "failed to get pending tickets"]
          /\ pc' = [pc EXCEPT ![p] = IF allTickets[p] = <<>> THEN "done" ELSE "process"]
          /\ UNCHANGED <<allTickets, stats>>
    /\ UNCHANGED <<env, now, notifications, business_hours_log, isBusinessHours,
                   isStartOfDay, rows, sent, sends, obs>>

\* a variant that assigns the size of the pending set to TicketsChecked instead of
\* adding it
FetchPendingOverwritesCount(p) ==
    /\ pc[p] = "fetchPending"
    /\ \/ \E ids \in SUBSET {i \in conversations : CategoryOf(i) = PendingNoCustomerResponse} :
          \E ts \in QueryTickets(ids, PendingNoCustomerResponse, cfg.pendingThreshold,
                                 PendingLookback, now) :
            /\ allTickets' = [allTickets EXCEPT ![p] = @ \o ts]
            /\ stats' = [stats EXCEPT ![p].TicketsChecked = Len(ts)]
            /\ pc' = [pc EXCEPT ![p] = IF allTickets[p] \o ts = <<>> THEN "done" ELSE "process"]
            /\ UNCHANGED runErr
       \/ /\ faults
          /\ runErr' = [runErr EXCEPT ![p] = "failed to get pending tickets"]
          /\ allTickets' = [allTickets EXCEPT ![p] = <<>>]
          /\ pc' = [pc EXCEPT ![p] = "done"]
          /\ UNCHANGED stats
    /\ UNCHANGED <<env, now, notifications, business_hours_log, isBusinessHours,
                   isStartOfDay, rows, sent, sends, obs>>

\* Run, lines 66-74: fetch the pending candidates and append them to the open ones
FetchPending(p) ==
    /\ pc[p] = "fetchPending"
    /\ \/ \E ids \in SUBSET {i \in conversations : CategoryOf(i) = PendingNoCustomerResponse} :
          \E ts \in QueryTickets(ids, PendingNoCustomerResponse, cfg.pendingThreshold,
                                 PendingLookback, now) :
            /\ allTickets' = [allTickets EXCEPT ![p] = @ \o ts]
            /\ stats' = [stats EXCEPT ![p].TicketsChecked = @ + Len(ts)]
            /\ pc' = [pc EXCEPT ![p] = IF allTickets[p] \o ts = <<>> THEN "done" ELSE "process"]
            /\ UNCHANGED runErr
       \/ /\ faults
          /\ runErr' = [runErr EXCEPT ![p] = "failed to get pending tickets"]
          /\ allTickets' = [allTickets EXCEPT ![p] = <<>>]
          /\ pc' = [pc EXCEPT ![p] = "done"]
          /\ UNCHANGED stats
    /\ UNCHANGED <<env, now, notifications, business_hours_log, isBusinessHours,
                   isStartOfDay, rows, sent, sends, obs>>

\* Run's loop, lines 76-84: where p goes once the head of allTickets is dealt with
AfterTicket(p) == IF Len(allTickets[p]) > 1 THEN "process" ELSE "done"

\* processTicket, lines 88-95: the skip check of the next candidate
ProcessSkipCheck(p) ==
    /\ pc[p] = "process"
    /\ LET ticket == Head(allTickets[p])
           seen == [NoEval EXCEPT !.key = KeyOf(ticket), !.at = now,
                                  !.pre = RowsOf(notifications, KeyOf(ticket)),
                                  !.before = stats[p], !.outcome = "eval"]
       IN \/ /\ IF shouldSkipTicket(notifications, ticket, now)
                THEN /\ allTickets' = [allTickets EXCEPT ![p] = Tail(@)]
                     /\ pc' = [pc EXCEPT ![p] = AfterTicket(p)]
                     /\ obs' = [obs EXCEPT ![p].ev = [seen EXCEPT !.outcome = "skipped"],
                                           ![p].skipped = @ + 1]
                ELSE /\ pc' = [pc EXCEPT ![p] =
                                 IF isBusinessHours[p] /\ ~cfg.dryRun THEN "send" ELSE "record"]
                     /\ obs' = [obs EXCEPT ![p].ev = seen]
                     /\ UNCHANGED allTickets
             /\ UNCHANGED stats
          \/ /\ faults
             /\ stats' = [stats EXCEPT ![p].Errors = @ + 1]
             /\ allTickets' = [allTickets EXCEPT ![p] = Tail(@)]
             /\ pc' = [pc EXCEPT ![p] = AfterTicket(p)]
             /\ obs' = [obs EXCEPT ![p].ev = [seen EXCEPT !.outcome = "lookupError"]]
    /\ UNCHANGED <<env, now, notifications, business_hours_log, isBusinessHours,
                   isStartOfDay, rows, sent, runErr, sends>>

\* a variant whose Run returns on the first transport failure: the candidates after
\* the failed one are dropped
ProcessSendAbortsOnError(p) ==
    /\ pc[p] = "send"
    /\ \/ /\ pc' = [pc EXCEPT ![p] = "record"]
          /\ sends' = Delivered(sends, KeyOf(Head(allTickets[p])), now)
          /\ obs' = [obs EXCEPT ![p].calls = @ + 1, ![p].ev.calls = @ + 1,
                                ![p].ev.sends = @ + 1]
          /\ UNCHANGED <<stats, allTickets>>
       \/ /\ faults
          /\ stats' = [stats EXCEPT ![p].Errors = @ + 1]
          /\ allTickets' = [allTickets EXCEPT ![p] = <<>>]
          /\ pc' = [pc EXCEPT ![p] = "done"]
          /\ obs' = [obs EXCEPT ![p].calls = @ + 1, ![p].ev.calls = @ + 1,
                                ![p].ev.outcome = "transportError"]
          /\ UNCHANGED sends
    /\ UNCHANGED <<env, now, notifications, business_hours_log, isBusinessHours,
                   isStartOfDay, rows, sent, runErr>>

\* processTicket, lines 97-103: the immediate send inside business hours
ProcessSend(p) ==
    /\ pc[p] = "send"
    /\ \/ /\ pc' = [pc EXCEPT ![p] = "record"]
          /\ sends' = Delivered(sends, KeyOf(Head(allTickets[p])), now)
          /\ obs' = [obs EXCEPT ![p].calls = @ + 1, ![p].ev.calls = @ + 1,
                                ![p].ev.sends = @ + 1]
          /\ UNCHANGED <<stats, allTickets>>
       \/ /\ faults
          /\ stats' = [stats EXCEPT ![p].Errors = @ + 1]
          /\ allTickets' = [allTickets EXCEPT ![p] = Tail(@)]
          /\ pc' = [pc EXCEPT ![p] = AfterTicket(p)]
          /\ obs' = [obs EXCEPT ![p].calls = @ + 1, ![p].ev.calls = @ + 1,
                                ![p].ev.outcome = "transportError"]
          /\ UNCHANGED sends
    /\ UNCHANGED <<env, now, notifications, business_hours_log, isBusinessHours,
                   isStartOfDay, rows, sent, runErr>>

\* the status processTicket records: sent inside business hours, queued outside
TargetStatus(p) == IF isBusinessHours[p] THEN StatusSent ELSE StatusQueued

\* processTicket, lines 104-122: the upsert and the counter
ProcessRecord(p) ==
    /\ pc[p] = "record"
    /\ \/ /\ notifications' = recordNotification(notifications, Head(allTickets[p]),
                                                 TargetStatus(p), now)
          /\ stats' = [stats EXCEPT
                         ![p].NotificationsSent = IF isBusinessHours[p] THEN @ + 1 ELSE @,
                         ![p].NotificationsQueued = IF isBusinessHours[p] THEN @ ELSE @ + 1]
          /\ obs' = [obs EXCEPT ![p].ev.outcome = TargetStatus(p),
                                ![p].ev.applied =
                                    Applied(notifications, Head(allTickets[p]), now)]
       \/ /\ faults
          /\ stats' = [stats EXCEPT ![p].Errors = @ + 1]
          /\ obs' = [obs EXCEPT ![p].ev.outcome = "storeError"]
          /\ UNCHANGED notifications
    /\ allTickets' = [allTickets EXCEPT ![p] = Tail(@)]
    /\ pc' = [pc EXCEPT ![p] = AfterTicket(p)]
    /\ UNCHANGED <<env, now, business_hours_log, isBusinessHours, isStartOfDay, rows,
                   sent, runErr, sends>>

\* Run has returned (lines 62, 69, 84) and the process exits: its memory is gone
Exit(p) ==
    /\ pc[p] = "done"
    /\ pc' = [pc EXCEPT ![p] = "idle"]
    /\ isBusinessHours' = [isBusinessHours EXCEPT ![p] = FALSE]
    /\ isStartOfDay' = [isStartOfDay EXCEPT ![p] = FALSE]
    /\ stats' = [stats EXCEPT ![p] = ZeroStats]
    /\ rows' = [rows EXCEPT ![p] = <<>>]
    /\ sent' = [sent EXCEPT ![p] = 0]
    /\ allTickets' = [allTickets EXCEPT ![p] = <<>>]
    /\ runErr' = [runErr EXCEPT ![p] = "nil"]
    /\ obs' = [obs EXCEPT ![p] = NoObs]
    /\ UNCHANGED <<env, now, notifications, business_hours_log, sends>>

\* the clock advances by a minute
Tick ==
    /\ now + 1 <= horizon
    /\ now' = now + 1
    /\ UNCHANGED <<env, notifications, business_hours_log, pc, isBusinessHours,
                   isStartOfDay, stats, rows, sent, allTickets, runErr, sends, obs>>

Next ==
    \/ Tick
    \/ \E p \in procs : StartRun(p)
    \/ \E p \in procs : SendQueuedQuery(p)
    \/ \E p \in procs : SendQueuedItem(p)
    \/ \E p \in procs : SendQueuedMark(p)
    \/ \E p \in procs : SendQueuedLog(p)
    \/ \E p \in procs : FetchOpen(p)
    \/ \E p \in procs : FetchPending(p)
    \/ \E p \in procs : ProcessSkipCheck(p)
    \/ \E p \in procs : ProcessSend(p)
    \/ \E p \in procs : ProcessRecord(p)
    \/ \E p \in procs : Exit(p)

Spec == Init /\ [][Next]_vars

SpecNoFaults == InitNoFaults /\ [][Next]_vars

SpecOverlap == InitOverlap /\ [][Next]_vars

----------------------------------------------------------------------------
(* Passes over two candidates while anything may fail *)

\* where a behaviour starts in which the store, the transport and the ticket source
\* may fail at every call and the help desk has both tickets: a Monday one minute
\* before opening, not dry-run, a flush cap of one
FaultScenarios ==
    {s \in [cfg : {c \in Configs : ~c.dryRun /\ c.maxNotifications = 1},
            at : {BeforeOpening},
            backlog : {FALSE},
            conversations : {TicketIds},
            faults : {TRUE}] : TRUE}

InitFaults == InitWith({1}, FaultScenarios)

SpecFaults == InitFaults /\ [][Next]_vars

----------------------------------------------------------------------------
(* A start-of-day pass that takes its time *)

\* where a behaviour starts whose first pass runs inside the start-of-day window
\* while the clock goes on: business hours and the flush configured, both tickets
\* queued by a pass the minute before, the Monday at opening
StartOfDayScenarios ==
    {s \in [cfg : {c \in Configs : c.enabled /\ c.notifyOnOpen},
            at : {Opening},
            backlog : {TRUE},
            conversations : {TicketIds},
            faults : BOOLEAN] : TRUE}

InitStartOfDay == InitWith({1}, StartOfDayScenarios)

SpecStartOfDay == InitStartOfDay /\ [][Next]_vars

----------------------------------------------------------------------------
(* Passes over several business days *)

\* whether local day d is a business day: a work day that is no holiday
IsBusinessDay(d) == (d % DaysPerWeek) \in cfg.workDays /\ d \notin cfg.holidays

\* the instant the start hour begins on the first business day after the day of t
NextOpening(t) ==
    LET days == (LocalDate(t) + 1) .. (LocalDate(t) + DaysPerWeek)
        d == CHOOSE x \in days :
                 IsBusinessDay(x) /\ \A y \in days : IsBusinessDay(y) => x <= y
    IN (d * HoursPerDay + cfg.startHour) * MinutesPerHour - cfg.timezone

\* where a behaviour over several days starts: business hours and the flush
\* configured, not dry-run, both tickets, nothing fails; a Monday at closing with
\* an empty store
DayScenarios ==
    {s \in [cfg : {c \in Configs : c.enabled /\ c.notifyOnOpen /\ ~c.dryRun},
            at : {Closing},
            backlog : {FALSE},
            conversations : {TicketIds},
            faults : {FALSE}] : TRUE}

InitDays == InitWith({1}, DayScenarios)

\* the night passes and cron starts a pass inside the start-of-day window of the
\* next business day: Run, lines 35-57, at that day's opening
StartOfDayRun(p) ==
    /\ \A q \in procs : pc[q] = "idle"
    /\ LocalDate(NextOpening(now)) <= LocalDate(horizon) + MaxDays
    /\ now' = NextOpening(now)
    /\ isBusinessHours' = [isBusinessHours EXCEPT ![p] = IsBusinessHours(NextOpening(now))]
    /\ isStartOfDay' = [isStartOfDay EXCEPT ![p] = IsStartOfBusinessDay(NextOpening(now))]
    /\ pc' = [pc EXCEPT ![p] = IF IsStartOfBusinessDay(NextOpening(now))
                               THEN "flushQuery" ELSE "fetchOpen"]
    /\ UNCHANGED <<env, notifications, business_hours_log, stats, rows, sent,
                   allTickets, runErr, sends, obs>>

\* a step of a pass that has started
PassStep(p) ==
    \/ SendQueuedQuery(p)
    \/ SendQueuedItem(p)
    \/ SendQueuedMark(p)
    \/ SendQueuedLog(p)
    \/ FetchOpen(p)
    \/ FetchPending(p)
    \/ ProcessSkipCheck(p)
    \/ ProcessSend(p)
    \/ ProcessRecord(p)
    \/ Exit(p)

NextDays ==
    \/ Next
    \/ \E p \in procs : StartOfDayRun(p)

\* a pass that has started runs to its end, and a pass does start inside the
\* start-of-day window of every business day
SpecDays ==
    /\ InitDays
    /\ [][NextDays]_vars
    /\ WF_vars(PassStep(1))
    /\ SF_vars(StartOfDayRun(1))

----------------------------------------------------------------------------
(* The oracle over its configurations *)

\* the holiday sets of holidays.json: none, or the Tuesday (local date 2)
HolidaySets == {{}, {2}}

\* the offsets of --business-hours-timezone: the default, or UTC
TzOffsets == {TzOffset, 0}

\* the configurations of the oracle: on or off, the start-of-day flush on or off,
\* the default hours and work days, either timezone, either holiday set
OracleConfigs ==
    [enabled : BOOLEAN,
     notifyOnOpen : BOOLEAN,
     startHour : {DefaultStartHour},
     endHour : {DefaultEndHour},
     timezone : TzOffsets,
     workDays : {DefaultWorkDays},
     holidays : HolidaySets,
     cooldown : {1},
     maxNotifications : {1},
     openThreshold : {OpenThreshold},
     pendingThreshold : {PendingThreshold},
     dryRun : {FALSE}]

\* the instants the oracle is asked at: a Sunday, a Monday and a Tuesday; on the
\* clock of the default timezone 02:59 (08:59 UTC), one minute before opening, the
\* last minute of the start-of-day window, and one minute before closing
OracleInstants ==
    {Instant(d, hm[1], hm[2]) :
        d \in {0, 1, 2},
        hm \in {<<DefaultStartHour - 1 + (TzOffset \div MinutesPerHour), 59>>,
                <<DefaultStartHour - 1, 59>>,
                <<DefaultStartHour, StartOfDayMinutes - 1>>,
                <<DefaultEndHour - 1, 59>>}}

\* where a behaviour of the oracle starts: a help desk without tickets and an empty
\* store, so that a pass is the two questions to the oracle and nothing else
OracleScenarios ==
    [cfg : OracleConfigs,
     at : OracleInstants,
     backlog : {FALSE},
     conversations : {{}},
     faults : {FALSE}]

InitOracle == InitWith({1}, OracleScenarios)

\* the steps of Run that a pass without tickets and without queued rows can take
NextOracle ==
    \/ Tick
    \/ \E p \in procs : StartRun(p)
    \/ \E p \in procs : SendQueuedQuery(p)
    \/ \E p \in procs : SendQueuedLog(p)
    \/ \E p \in procs : FetchOpen(p)
    \/ \E p \in procs : FetchPending(p)
    \/ \E p \in procs : Exit(p)

SpecOracle == InitOracle /\ [][NextOracle]_vars

----------------------------------------------------------------------------
(* A normal pass and a dry-run pass from the same store *)

\* where a comparison starts: any configuration that is not dry-run, both tickets,
\* nothing fails; passes before the comparison fill the store
TwinScenarios ==
    {s \in [cfg : {c \in Configs : ~c.dryRun},
            at : {BeforeOpening, BeforeClosing},
            backlog : {FALSE},
            conversations : {TicketIds},
            faults : {FALSE}] :
       (s.cfg.enabled /\ s.cfg.notifyOnOpen) \/ s.at = BeforeOpening}

InitTwin == InitWith({1}, TwinScenarios)

\* between two passes the store and the burst log are set aside, and the clock is
\* stopped: the next pass, with --dry-run off, is the normal pass of the comparison
TwinBegin ==
    /\ twin.phase = "off"
    /\ \A p \in procs : pc[p] = "idle"
    /\ twin' = [phase |-> "normal", notifications |-> notifications,
                business_hours_log |-> business_hours_log]
    /\ horizon' = now
    /\ UNCHANGED <<cfg, procs, conversations, faults, now, notifications,
                   business_hours_log, pc, isBusinessHours, isStartOfDay, stats, rows,
                   sent, allTickets, runErr, sends, obs, slack, duration, sweep>>

\* the normal pass has returned: what it left in the store and the burst log is set
\* aside, the store and the burst log are put back as they were before it, and a
\* second process runs one pass with --dry-run on
TwinRewind ==
    /\ twin.phase = "normal"
    /\ pc[1] = "done"
    /\ twin' = [phase |-> "dry", notifications |-> notifications,
                business_hours_log |-> business_hours_log]
    /\ notifications' = twin.notifications
    /\ business_hours_log' = twin.business_hours_log
    /\ cfg' = [cfg EXCEPT !.dryRun = TRUE]
    /\ procs' = {2}
    /\ UNCHANGED <<horizon, conversations, faults, now, pc, isBusinessHours,
                   isStartOfDay, stats, rows, sent, allTickets, runErr, sends, obs, slack,
                   duration, sweep>>

\* the steps of Next; once a comparison has begun the clock stands still and a
\* process that has run its pass does not start another
NextTwin ==
    \/ twin.phase = "off" /\ Tick
    \/ \E p \in procs : StartRun(p)
    \/ \E p \in procs : SendQueuedQuery(p)
    \/ \E p \in procs : SendQueuedItem(p)
    \/ \E p \in procs : SendQueuedMark(p)
    \/ \E p \in procs : SendQueuedLog(p)
    \/ \E p \in procs : FetchOpen(p)
    \/ \E p \in procs : FetchPending(p)
    \/ \E p \in procs : ProcessSkipCheck(p)
    \/ \E p \in procs : ProcessSend(p)
    \/ \E p \in procs : ProcessRecord(p)
    \/ \E p \in procs : twin.phase = "off" /\ Exit(p)
    \/ TwinBegin
    \/ TwinRewind

SpecTwin == InitTwin /\ [][NextTwin]_vars

----------------------------------------------------------------------------
(* Passes of a deployment whose thresholds are changed between passes *)

\* the operator restarts the scheduled command with --open-threshold and
\* --pending-threshold halved: every later pass parses the new flags
Reconfigure ==
    /\ \A p \in procs : pc[p] = "idle"
    /\ cfg.openThreshold = OpenThreshold
    /\ cfg' = [cfg EXCEPT !.openThreshold = OpenThreshold \div 2,
                          !.pendingThreshold = PendingThreshold \div 2]
    /\ UNCHANGED <<now, horizon, procs, conversations, faults, notifications,
                   business_hours_log, pc, isBusinessHours, isStartOfDay, stats, rows,
                   sent, allTickets, runErr, sends, obs, twin, slack, duration,
                   sweep>>

NextReconfig ==
    \/ Next
    \/ Reconfigure

SpecReconfig == InitNoFaults /\ [][NextReconfig]_vars

----------------------------------------------------------------------------
(* slack.Client.SendMessage, attempt by attempt *)

\* http.StatusOK
StatusOK == 200

\* what httpClient.Do may return for one request: a network error (a timeout, a
\* refused connection), or a response with its status code
Responses ==
    {[err |-> TRUE, status |-> 0]}
        \cup {[err |-> FALSE, status |-> c] : c \in {StatusOK, 204, 500}}

\* the values --slack-retry-attempts may carry (the flag is not validated)
RetrySettings == (0 - 1)..MaxRetryAttempts

\* slack.NewClient(cfg.Slack): the attempts configured, and whether http.NewRequest
\* accepts the configured webhook URL (Validate only requires it to be non-empty)
NewClient ==
    /\ slack.pc = "none"
    /\ \E r \in RetrySettings, ok \in BOOLEAN :
           slack' = [NoClient EXCEPT !.pc = "idle", !.retryAttempts = r, !.urlOk = ok]
    /\ UNCHANGED <<cfg, now, horizon, procs, conversations, faults, notifications,
                   business_hours_log, pc, isBusinessHours, isStartOfDay, stats, rows,
                   sent, allTickets, runErr, sends, obs, twin, duration, sweep>>

\* SendMessage is called: lines 202-208, the payload is marshalled (a string always
\* marshals), lastErr is nil, attempt is 0
SendMessageCall ==
    /\ slack.pc \in {"idle", "returned"}
    /\ slack' = [slack EXCEPT !.pc = "loop", !.attempt = 0, !.lastErr = "nil",
                              !.outcomes = <<>>, !.slept = <<>>, !.result = "none"]
    /\ UNCHANGED <<cfg, now, horizon, procs, conversations, faults, notifications,
                   business_hours_log, pc, isBusinessHours, isStartOfDay, stats, rows,
                   sent, allTickets, runErr, sends, obs, twin, duration, sweep>>

\* the backoff before attempt number `attempt`, in seconds (none before the first)
Backoff(attempt) == IF attempt > 0 THEN <<attempt * attempt>> ELSE <<>>

\* a variant whose loop condition lets one attempt too many through
SendAttemptThroughLast ==
    /\ slack.pc = "loop"
    /\ slack.attempt <= slack.retryAttempts
    /\ IF ~slack.urlOk
       THEN slack' = [slack EXCEPT !.slept = @ \o Backoff(slack.attempt),
                                   !.pc = "returned", !.result = "createError"]
       ELSE \E resp \in Responses :
                slack' =
                    IF resp.err
                    THEN [slack EXCEPT !.slept = @ \o Backoff(slack.attempt),
                                       !.outcomes = Append(@, resp),
                                       !.lastErr = "network",
                                       !.attempt = @ + 1]
                    ELSE IF resp.status = StatusOK
                    THEN [slack EXCEPT !.slept = @ \o Backoff(slack.attempt),
                                       !.outcomes = Append(@, resp),
                                       !.pc = "returned", !.result = "nil"]
                    ELSE [slack EXCEPT !.slept = @ \o Backoff(slack.attempt),
                                       !.outcomes = Append(@, resp),
                                       !.lastErr = "status",
                                       !.attempt = @ + 1]
    /\ UNCHANGED <<cfg, now, horizon, procs, conversations, faults, notifications,
                   business_hours_log, pc, isBusinessHours, isStartOfDay, stats, rows,
                   sent, allTickets, runErr, sends, obs, twin, duration, sweep>>

\* one iteration of the loop, lines 209-234: the backoff, the request, the POST and
\* what becomes of its result
SendAttempt ==
    /\ slack.pc = "loop"
    /\ slack.attempt < slack.retryAttempts
    /\ IF ~slack.urlOk
       THEN slack' = [slack EXCEPT !.slept = @ \o Backoff(slack.attempt),
                                   !.pc = "returned", !.result = "createError"]
       ELSE \E resp \in Responses :
                slack' =
                    IF resp.err
                    THEN [slack EXCEPT !.slept = @ \o Backoff(slack.attempt),
                                       !.outcomes = Append(@, resp),
                                       !.lastErr = "network",
                                       !.attempt = @ + 1]
                    ELSE IF resp.status = StatusOK
                    THEN [slack EXCEPT !.slept = @ \o Backoff(slack.attempt),
                                       !.outcomes = Append(@, resp),
                                       !.pc = "returned", !.result = "nil"]
                    ELSE [slack EXCEPT !.slept = @ \o Backoff(slack.attempt),
                                       !.outcomes = Append(@, resp),
                                       !.lastErr = "status",
                                       !.attempt = @ + 1]
    /\ UNCHANGED <<cfg, now, horizon, procs, conversations, faults, notifications,
                   business_hours_log, pc, isBusinessHours, isStartOfDay, stats, rows,
                   sent, allTickets, runErr, sends, obs, twin, duration, sweep>>

\* the loop condition fails, line 236: "failed after %d attempts"
SendExhausted ==
    /\ slack.pc = "loop"
    /\ ~(slack.attempt < slack.retryAttempts)
    /\ slack' = [slack EXCEPT !.pc = "returned", !.result = "failed"]
    /\ UNCHANGED <<cfg, now, horizon, procs, conversations, faults, notifications,
                   business_hours_log, pc, isBusinessHours, isStartOfDay, stats, rows,
                   sent, allTickets, runErr, sends, obs, twin, duration, sweep>>

\* a client of any configuration sends messages one after the other; no pass runs
SlackScenarios ==
    {s \in [cfg : {c \in Configs : c.enabled /\ c.notifyOnOpen /\ ~c.dryRun
                                   /\ c.cooldown = 1 /\ c.maxNotifications = 1},
            at : {BeforeOpening}, backlog : {FALSE},
            conversations : {{}}, faults : {TRUE}] : TRUE}

InitSlack == InitWith({1}, SlackScenarios)

NextSlack ==
    \/ NewClient
    \/ SendMessageCall
    \/ SendAttempt
    \/ SendExhausted

SpecSlack == InitSlack /\ [][NextSlack]_vars

\* TestSlackWebhook, --check-connections: a client is built from a SlackConfig literal
\* that sets WebhookURL and Timeout only, so RetryAttempts has Go's zero value, and
\* SendMessage is called on it with the test message
TestSlackWebhook ==
    /\ slack.pc = "none"
    /\ \E ok \in BOOLEAN :
           slack' = [NoClient EXCEPT !.pc = "loop", !.retryAttempts = 0, !.urlOk = ok,
                                     !.healthCheck = TRUE]
    /\ UNCHANGED <<cfg, now, horizon, procs, conversations, faults, notifications,
                   business_hours_log, pc, isBusinessHours, isStartOfDay, stats, rows,
                   sent, allTickets, runErr, sends, obs, twin, duration, sweep>>

\* a client is built by the notifier or by the health check, and sends
NextHealth ==
    \/ NewClient
    \/ TestSlackWebhook
    \/ SendMessageCall
    \/ SendAttempt
    \/ SendExhausted

SpecHealth == InitSlack /\ [][NextHealth]_vars

----------------------------------------------------------------------------
(* The retention sweep, --cleanup *)

\* the retention CleanupOldNotifications falls back to
DefaultRetentionDays == 90

\* the values --retention-days may carry (0 stands for every value the sweep
\* replaces by its default)
RetentionSettings == 0..MaxRetentionDays

\* datetime('now', '-' || ? || ' days') for the retention the sweep was called with
RetentionCutoff(retentionDays, t) ==
    t - (IF retentionDays <= 0 THEN DefaultRetentionDays ELSE retentionDays)
            * HoursPerDay * MinutesPerHour

\* the WHERE of DELETE FROM notifications
Expired(r, cutoff) ==
    \/ r.sent_at # NULL /\ r.sent_at < cutoff
    \/ r.sent_at = NULL /\ r.first_eligible_at < cutoff

\* DELETE FROM business_hours_log WHERE event_time < cutoff
RetainedLog(log, cutoff) == SelectSeq(log, LAMBDA e : ~(e.event_time < cutoff))

\* CleanupOldNotifications, run by an invocation with --cleanup between two passes:
\* the two DELETEs, the second only when the first succeeded
CleanupOldNotifications ==
    /\ \A p \in procs : pc[p] = "idle"
    /\ \E retentionDays \in RetentionSettings :
           LET cutoff == RetentionCutoff(retentionDays, now)
               old == {r \in notifications : Expired(r, cutoff)}
           IN \/ /\ notifications' = notifications \ old
                 /\ sweep' = [days |-> retentionDays, at |-> now, deleted |-> old]
                 /\ \/ business_hours_log' = RetainedLog(business_hours_log, cutoff)
                    \/ faults /\ UNCHANGED business_hours_log
              \/ /\ faults
                 /\ sweep' = [days |-> retentionDays, at |-> now, deleted |-> {}]
                 /\ UNCHANGED <<notifications, business_hours_log>>
    /\ UNCHANGED <<cfg, now, horizon, procs, conversations, faults, pc, isBusinessHours,
                   isStartOfDay, stats, rows, sent, allTickets, runErr, sends, obs, twin,
                   slack, duration>>

\* a day goes by without a pass
DayPasses ==
    /\ \A p \in procs : pc[p] = "idle"
    /\ LocalDate(now) + 1 <= LocalDate(horizon) + MaxDays
    /\ now' = now + HoursPerDay * MinutesPerHour
    /\ UNCHANGED <<env, notifications, business_hours_log, pc, isBusinessHours,
                   isStartOfDay, stats, rows, sent, allTickets, runErr, sends, obs>>

\* where a behaviour with retention sweeps starts: business hours configured, not
\* dry-run, ticket 1, a Monday one minute before closing with an empty store
CleanupScenarios ==
    {s \in [cfg : {c \in Configs : c.enabled /\ ~c.dryRun /\ c.maxNotifications = 1},
            at : {BeforeClosing},
            backlog : {FALSE},
            conversations : {{1}},
            faults : BOOLEAN] : TRUE}

InitCleanup == InitWith({1}, CleanupScenarios)

NextCleanup ==
    \/ Next
    \/ \E p \in procs : StartOfDayRun(p)
    \/ DayPasses
    \/ CleanupOldNotifications

SpecCleanup == InitCleanup /\ [][NextCleanup]_vars

----------------------------------------------------------------------------
(* formatDuration, called on its own *)

\* the waits formatDuration is called with: formatSlackMessage passes
\* time.Duration(ticket.MinutesSinceReply) * time.Minute, a whole number of minutes
DurationInputs == 0..MaxMinutes

\* one call of formatDuration, its argument and the text it returned
FormatDurationCall ==
    /\ \E m \in DurationInputs :
           duration' = [minutes |-> m, text |-> formatDuration(m)]
    /\ UNCHANGED <<cfg, now, horizon, procs, conversations, faults, notifications,
                   business_hours_log, pc, isBusinessHours, isStartOfDay, stats, rows,
                   sent, allTickets, runErr, sends, obs, twin, slack, sweep>>

NextFormat == FormatDurationCall

SpecFormat == InitSlack /\ [][NextFormat]_vars

----------------------------------------------------------------------------
(* The claims *)

\* C1: when a key's record carries sent_at = t0 and is not queued, shouldSkipTicket
\* answers skip at every evaluation time in [t0, t0 + C) and do-not-skip at every
\* evaluation time at or after t0 + C; and every evaluation of a pass whose lookup
\* succeeded on such a record was skipped exactly when it fell inside [t0, t0 + C)
C1_CooldownWindow ==
    /\ \A k \in Keys : \A r \in RowsOf(notifications, k) :
          (r.sent_at # NULL /\ r.notification_status # StatusQueued) =>
             \A t \in r.sent_at .. (horizon + 1) :
                shouldSkipTicket(notifications, Ticket(k[1], k[2], t), t)
                   <=> (t < r.sent_at + cfg.cooldown)
    /\ \A p \in procs : \A r \in obs[p].ev.pre :
          (/\ obs[p].ev.outcome \notin {"none", "lookupError"}
           /\ r.sent_at # NULL
           /\ r.notification_status # StatusQueued) =>
             ((obs[p].ev.outcome = "skipped") <=> (obs[p].ev.at < r.sent_at + cfg.cooldown))

\* C1 witness: a pass evaluated a ticket whose record was not queued and carried
\* a sent_at, inside the cooldown window, and skipped it
C1_Witness ==
    \E p \in procs : \E r \in obs[p].ev.pre :
        /\ obs[p].ev.outcome = "skipped"
        /\ r.notification_status # StatusQueued
        /\ r.sent_at # NULL
        /\ r.sent_at <= obs[p].ev.at
        /\ obs[p].ev.at < r.sent_at + cfg.cooldown

\* C2: shouldSkipTicket answers skip whenever the key's record is queued, at every
\* evaluation time and whether or not the record also carries an expired sent_at,
\* and do-not-skip when the key has no record; the evaluations of a pass whose lookup
\* succeeded went the same way
C2_QueuedSkipsNoRecordDoesNot ==
    /\ \A k \in Keys : \A t \in now .. (horizon + 1) :
          LET rs == RowsOf(notifications, k)
              skip == shouldSkipTicket(notifications, Ticket(k[1], k[2], t), t)
          IN /\ (\E r \in rs : r.notification_status = StatusQueued) => skip
             /\ rs = {} => ~skip
    /\ \A p \in procs :
          obs[p].ev.outcome \notin {"none", "lookupError"} =>
             /\ (\E r \in obs[p].ev.pre : r.notification_status = StatusQueued)
                   => obs[p].ev.outcome = "skipped"
             /\ obs[p].ev.pre = {} => obs[p].ev.outcome # "skipped"

\* C2 witness: a pass skipped a ticket whose record was queued and carried a
\* sent_at whose cooldown had expired
C2_Witness ==
    \E p \in procs : \E r \in obs[p].ev.pre :
        /\ obs[p].ev.outcome = "skipped"
        /\ r.notification_status = StatusQueued
        /\ r.sent_at # NULL
        /\ r.sent_at + cfg.cooldown <= obs[p].ev.at

\* C3: a recordNotification call, whatever its target status, made while the key's
\* row carries a sent_at that is still within the cooldown window (now < sent_at + C)
\* leaves the table as it was, every field of the row included, and returns no error
C3_SilentNoOp ==
    [][\A p \in procs :
          (/\ pc[p] = "record"
           /\ pc'[p] # "record"
           /\ \E r \in RowsOf(notifications, KeyOf(Head(allTickets[p]))) :
                 r.sent_at # NULL /\ now < r.sent_at + cfg.cooldown) =>
             /\ notifications' = notifications
             /\ obs'[p].ev.outcome = TargetStatus(p)
             /\ stats'[p].Errors = stats[p].Errors]_vars

\* C3 witness: a pass's upsert returned without error and wrote nothing, and the
\* key's row carries a sent_at still within the cooldown window
C3_Witness ==
    \E p \in procs : \E r \in RowsOf(notifications, obs[p].ev.key) :
        /\ obs[p].ev.outcome \in {StatusSent, StatusQueued}
        /\ ~obs[p].ev.applied
        /\ r.sent_at # NULL
        /\ now < r.sent_at + cfg.cooldown

\* C4: when overlapping passes write the same key, an upsert changes a sent_at that
\* another writer has set only if more than the cooldown has passed since that
\* sent_at: within one cooldown window the upserts stamp sent_at at most once
C4_StampedOncePerWindow ==
    [][\A p \in procs : \A r \in notifications :
          (/\ pc[p] = "record"
           /\ pc'[p] # "record"
           /\ r.sent_at # NULL
           /\ \E q \in notifications' : q.id = r.id /\ q.sent_at # r.sent_at) =>
             r.sent_at + cfg.cooldown < now]_vars

\* C4 witness: two overlapping passes both sent for the same key; the upsert of one
\* set sent_at, the upsert of the other was dropped
C4_Witness ==
    \E p \in procs : \E q \in procs \ {p} :
        /\ obs[p].ev.key = obs[q].ev.key
        /\ obs[p].ev.outcome = StatusSent /\ obs[p].ev.sends = 1 /\ obs[p].ev.applied
        /\ obs[q].ev.outcome = StatusSent /\ obs[q].ev.sends = 1 /\ ~obs[q].ev.applied
        /\ \E r \in RowsOf(notifications, obs[p].ev.key) : r.sent_at # NULL

\* C5: across passes that do not overlap and are not dry-run, a transport send for
\* a key that was sent before comes no sooner than the cooldown after the last send
C5_SendsSeparatedByCooldown ==
    [][\A p \in procs : \A k \in Keys :
          (/\ ~cfg.dryRun
           /\ sends[k] # NULL
           /\ \/ /\ pc[p] = "send"
                 /\ pc'[p] = "record"
                 /\ KeyOf(Head(allTickets[p])) = k
              \/ /\ pc[p] = "flushItem"
                 /\ pc'[p] = "flushMark"
                 /\ KeyOf(Unmarshal(Head(rows[p]).ticket_data)) = k) =>
             now - sends[k] >= cfg.cooldown]_vars

\* C6: a pass whose business-time evaluation at its start was false makes no call
\* to the transport, in dry-run and in normal mode: its start-of-day evaluation is
\* false too, so it never enters the flusher, and its evaluation step never sends
C6_NoTransportOutsideBusinessTime ==
    \A p \in procs :
        (pc[p] # "idle" /\ ~isBusinessHours[p]) =>
            /\ obs[p].calls = 0
            /\ obs[p].ev.calls = 0
            /\ ~isStartOfDay[p]
            /\ obs[p].flush = NoFlush
            /\ pc[p] \notin {"flushQuery", "flushItem", "flushMark", "send"}

\* C6 witness: a pass outside business time, not dry-run, has come to its end after
\* queueing a candidate, and the store holds queued notifications
C6_Witness ==
    \E p \in procs :
        /\ pc[p] = "done"
        /\ ~isBusinessHours[p]
        /\ ~cfg.dryRun
        /\ stats[p].NotificationsQueued >= 1
        /\ \E r \in notifications : r.notification_status = StatusQueued

\* C7: a candidate with no prior record, evaluated by a pass inside business hours
\* that is not dry-run, whose send and whose upsert succeeded: exactly one transport
\* call and one send were made for it, its record exists with status sent and a
\* sent_at, and the run's sent counter is one more than before the evaluation
C7_FirstNotificationSent ==
    \A p \in procs :
        (/\ obs[p].ev.pre = {}
         /\ isBusinessHours[p]
         /\ ~cfg.dryRun
         /\ obs[p].ev.outcome = StatusSent) =>
            /\ obs[p].ev.calls = 1
            /\ obs[p].ev.sends = 1
            /\ Cardinality(RowsOf(notifications, obs[p].ev.key)) = 1
            /\ \A r \in RowsOf(notifications, obs[p].ev.key) :
                  /\ r.notification_status = StatusSent
                  /\ r.sent_at # NULL
                  /\ r.sent_at >= obs[p].ev.at
            /\ stats[p].NotificationsSent = obs[p].ev.before.NotificationsSent + 1
            /\ stats[p].NotificationsQueued = obs[p].ev.before.NotificationsQueued
            /\ stats[p].Errors = obs[p].ev.before.Errors

\* C7 witness: with business hours enabled, a pass inside them, not dry-run, sent
\* and recorded a candidate that had no record
C7_Witness ==
    \E p \in procs :
        /\ cfg.enabled
        /\ isBusinessHours[p]
        /\ ~cfg.dryRun
        /\ obs[p].ev.pre = {}
        /\ obs[p].ev.outcome = StatusSent
        /\ obs[p].ev.sends = 1

\* C8: a candidate that is not skipped, evaluated by a pass outside business hours
\* whose upsert returned no error: its record is queued with queued_at set, the
\* run's queued counter is one more than before, and no transport call was made
\* (stated for the configurations with a cooldown greater than zero)
C8_QueuedOutsideBusinessHours ==
    \A p \in procs :
        (/\ pc[p] # "idle"
         /\ ~isBusinessHours[p]
         /\ cfg.cooldown > 0
         /\ obs[p].ev.outcome = StatusQueued) =>
            /\ \E r \in RowsOf(notifications, obs[p].ev.key) :
                  r.notification_status = StatusQueued /\ r.queued_at # NULL
            /\ stats[p].NotificationsQueued = obs[p].ev.before.NotificationsQueued + 1
            /\ obs[p].ev.calls = 0

\* C9: right after a flush none of whose store writes failed, with k the number of
\* queued notifications it sent (simulated in dry-run): each of them is recorded
\* sent with a sent_at; if k >= 1 the burst log is the log as the flush found it
\* plus one entry of count k, if k = 0 the burst log is as the flush found it; and
\* the run's sent counter, zero before the flush, is k
C9_FlushLogsOneBurst ==
    \A p \in procs :
        (/\ pc[p] = "fetchOpen"
         /\ obs[p].flush.state = "done"
         /\ ~obs[p].flush.storeErr) =>
            LET k == Cardinality(obs[p].flush.delivered)
                log0 == obs[p].flush.log0
            IN /\ sent[p] = k
               /\ \A key \in obs[p].flush.delivered :
                     \E r \in RowsOf(notifications, key) :
                        r.notification_status = StatusSent /\ r.sent_at # NULL
               /\ IF k >= 1
                  THEN /\ Len(business_hours_log) = Len(log0) + 1
                       /\ SubSeq(business_hours_log, 1, Len(log0)) = log0
                       /\ business_hours_log[Len(log0) + 1].event_type = "burst_sent"
                       /\ business_hours_log[Len(log0) + 1].notifications_sent = k
                  ELSE business_hours_log = log0
               /\ stats[p].NotificationsSent = k

\* C9 witness: a flush that is not dry-run has just sent two queued notifications
\* and logged the burst
C9_Witness ==
    \E p \in procs :
        /\ pc[p] = "fetchOpen"
        /\ obs[p].flush.state = "done"
        /\ ~obs[p].flush.storeErr
        /\ ~cfg.dryRun
        /\ Cardinality(obs[p].flush.delivered) = 2
        /\ Len(business_hours_log) = 1

\* C10: a candidate evaluated while its record is sent and within cooldown, the
\* lookup succeeding: it is skipped, no transport call is made for it, the key's
\* rows are what they were, and the run's sent, queued and error counters are what
\* they were
C10_SkippedWithinCooldown ==
    \A p \in procs :
        (/\ obs[p].ev.outcome \notin {"none", "lookupError"}
         /\ \E r \in obs[p].ev.pre :
               /\ r.notification_status = StatusSent
               /\ r.sent_at # NULL
               /\ obs[p].ev.at < r.sent_at + cfg.cooldown) =>
            /\ obs[p].ev.outcome = "skipped"
            /\ obs[p].ev.calls = 0
            /\ obs[p].ev.sends = 0
            /\ RowsOf(notifications, obs[p].ev.key) = obs[p].ev.pre
            /\ stats[p].NotificationsSent = obs[p].ev.before.NotificationsSent
            /\ stats[p].NotificationsQueued = obs[p].ev.before.NotificationsQueued
            /\ stats[p].Errors = obs[p].ev.before.Errors

\* C10 witness: a pass skipped a still-eligible candidate whose record was sent
\* and within cooldown, and left the record and its counters alone
C10_Witness ==
    \E p \in procs : \E r \in obs[p].ev.pre :
        /\ obs[p].ev.outcome = "skipped"
        /\ r.notification_status = StatusSent
        /\ obs[p].ev.at < r.sent_at + cfg.cooldown
        /\ RowsOf(notifications, obs[p].ev.key) = {r}
        /\ stats[p] = obs[p].ev.before

\* C11: with business hours and the start-of-day flush configured, a pass running
\* inside the start-of-day window of every business day and nothing failing, a
\* record that is queued is eventually sent, also when more records are queued than
\* one flush takes
C11_QueuedEventuallySent ==
    \A k \in Keys :
        (\E r \in RowsOf(notifications, k) : r.notification_status = StatusQueued)
            ~> (\E r \in RowsOf(notifications, k) : r.notification_status = StatusSent)

\* C11 witness: two records were queued on the first evening, the flush takes one
\* record a pass, and after one burst on each of the next two business days both
\* records are sent
C11_Witness ==
    /\ cfg.maxNotifications = 1
    /\ LocalDate(now) = LocalDate(horizon) + 2
    /\ Len(business_hours_log) = 2
    /\ \A i \in 1..Len(business_hours_log) : business_hours_log[i].notifications_sent = 1
    /\ business_hours_log[1].event_time < business_hours_log[2].event_time
    /\ \A id \in TicketIds : \E r \in RowsOf(notifications, <<id, CategoryOf(id)>>) :
          r.notification_status = StatusSent /\ r.queued_at # NULL

\* C12: a pass that is not dry-run sends at most max-notifications-per-run
\* notifications over the transport, the flushed and the immediately sent ones
\* counted together, and counts at most that many as sent
C12_SendsWithinCap ==
    \A p \in procs :
        (pc[p] # "idle" /\ ~cfg.dryRun) =>
            /\ obs[p].calls <= cfg.maxNotifications
            /\ stats[p].NotificationsSent <= cfg.maxNotifications

\* C13: the answer IsBusinessHours gives a pass at instant t is true when the
\* feature is disabled; when enabled it is false if the local date of t is a
\* holiday, false if the local weekday is no work day, and otherwise true exactly
\* when start <= local hour < end: true at local hour = start, false at local
\* hour = end
C13_BusinessHoursByDateDayHour ==
    [][\A p \in procs :
          (pc[p] = "idle" /\ pc'[p] # "idle") =>
             LET answer == isBusinessHours'[p]
                 free == /\ LocalDate(now) \notin cfg.holidays
                         /\ LocalWeekday(now) \in cfg.workDays
             IN /\ ~cfg.enabled => answer
                /\ (cfg.enabled /\ LocalDate(now) \in cfg.holidays) => ~answer
                /\ (cfg.enabled /\ LocalWeekday(now) \notin cfg.workDays) => ~answer
                /\ (cfg.enabled /\ free) =>
                      (answer <=> (cfg.startHour <= LocalHour(now)
                                   /\ LocalHour(now) < cfg.endHour))
                /\ (cfg.enabled /\ free /\ LocalHour(now) = cfg.startHour) => answer
                /\ (cfg.enabled /\ LocalHour(now) = cfg.endHour) => ~answer]_vars

\* C13 witness: with the feature enabled and a holiday configured, a pass asked
\* the oracle in the first minute of the start hour of a work day in the
\* configured timezone (UTC) and was answered true
C13_Witness ==
    \E p \in procs :
        /\ pc[p] # "idle"
        /\ cfg.enabled
        /\ cfg.holidays # {}
        /\ cfg.timezone = 0
        /\ LocalHour(now) = cfg.startHour
        /\ LocalMinute(now) = 0
        /\ isBusinessHours[p]

\* C14: the answer IsStartOfBusinessDay gives a pass at instant t is false when
\* business hours are disabled or notify-at-start-of-day is off; otherwise it is
\* true exactly when IsBusinessHours(t) holds, the local hour is the start hour and
\* the local minute is less than 5: never on a holiday or a day that is no work
\* day, and not at start hour:05
C14_StartOfDayWindow ==
    [][\A p \in procs :
          (pc[p] = "idle" /\ pc'[p] # "idle") =>
             LET answer == isStartOfDay'[p]
             IN /\ (~cfg.enabled \/ ~cfg.notifyOnOpen) => ~answer
                /\ (cfg.enabled /\ cfg.notifyOnOpen) =>
                      (answer <=> /\ IsBusinessHours(now)
                                  /\ LocalHour(now) = cfg.startHour
                                  /\ LocalMinute(now) < StartOfDayMinutes)
                /\ LocalDate(now) \in cfg.holidays => ~answer
                /\ LocalWeekday(now) \notin cfg.workDays => ~answer
                /\ (LocalHour(now) = cfg.startHour
                    /\ LocalMinute(now) = StartOfDayMinutes) => ~answer]_vars

\* C14 witness: a pass asked the oracle in the last minute of the start-of-day
\* window of a work day, a holiday being configured, and was answered true
C14_Witness ==
    \E p \in procs :
        /\ pc[p] = "flushQuery"
        /\ cfg.holidays # {}
        /\ LocalHour(now) = cfg.startHour
        /\ LocalMinute(now) = StartOfDayMinutes - 1
        /\ isStartOfDay[p]

\* the normal pass (process 1) and the dry-run pass (process 2) of a comparison
\* were given the same candidates: as many, and the same last one (the two tickets
\* are of different categories, so this fixes the list); and their flushes were
\* given the same queued rows
SameInputs ==
    /\ stats[1].TicketsChecked = stats[2].TicketsChecked
    /\ obs[1].ev.key = obs[2].ev.key
    /\ obs[1].flush.delivered = obs[2].flush.delivered

\* C15: a dry-run pass makes no transport call; and when it has returned, having
\* started from the same store, at the same clock and with the same candidates as a
\* normal pass whose transport did not fail, the notification records, the burst
\* log, the run counters and the result of Run are those of the normal pass
C15_DryRunSameAsNormal ==
    twin.phase = "dry" =>
        /\ obs[2].calls = 0
        /\ (pc[2] = "done" /\ SameInputs) =>
              /\ notifications = twin.notifications
              /\ business_hours_log = twin.business_hours_log
              /\ stats[2] = stats[1]
              /\ runErr[2] = runErr[1]

\* C15 witness: the two passes began at a start of day with a queued record in the
\* store; each flushed it, logged the burst and then sent (the dry-run one without
\* the transport) and recorded a candidate, and they ended with the same store
C15_Witness ==
    /\ twin.phase = "dry"
    /\ pc[2] = "done"
    /\ SameInputs
    /\ obs[1].calls = 2
    /\ obs[2].calls = 0
    /\ obs[2].flush.delivered # {}
    /\ stats[2].NotificationsSent = 2
    /\ Len(business_hours_log) = 1
    /\ notifications = twin.notifications

\* C16: whatever passes have run, one after the other or overlapping, evaluating
\* and flushing, the store holds at most one record per (ticket, category), and no
\* two records share an id
C16_OneRecordPerKey ==
    /\ \A k \in Keys : Cardinality(RowsOf(notifications, k)) <= 1
    /\ \A r, q \in notifications : r.id = q.id => r = q

\* C16 witness: a pass observed a candidate whose key had a record, was not
\* skipped, and its upsert wrote: the key still has one record, the one it had,
\* changed
C16_Witness ==
    \E p \in procs : \E r0 \in obs[p].ev.pre : \E r \in notifications :
        /\ obs[p].ev.outcome \in {StatusSent, StatusQueued}
        /\ obs[p].ev.applied
        /\ RowsOf(notifications, obs[p].ev.key) = {r}
        /\ r.id = r0.id
        /\ r # r0

\* the ways the evaluation of a candidate ends in an error: the lookup of
\* shouldSkipTicket, the transport or the upsert failed
EvalErrors == {"lookupError", "transportError", "storeError"}

\* C17: the step that ends the evaluation of a candidate adds one to the error
\* counter, and to no other counter, when the evaluation ended in an error (lookup,
\* transport or record write), and leaves the error counter alone otherwise; either
\* way Run goes on to the next candidate if there is one, with no error to return.
\* So a pass that fetched its candidates returns nil with all of them evaluated,
\* and the errors of the evaluation at hand count one
C17_TicketErrorCountedPassGoesOn ==
    /\ [](\A p \in procs :
             /\ pc[p] \in {"process", "send", "record"} =>
                   runErr[p] = "nil" /\ allTickets[p] # <<>>
             /\ (pc[p] = "done" /\ runErr[p] = "nil") => allTickets[p] = <<>>
             /\ obs[p].ev.outcome \in EvalErrors =>
                   stats[p].Errors = obs[p].ev.before.Errors + 1)
    /\ [][\A p \in procs :
             (/\ pc[p] \in {"process", "send", "record"}
              /\ pc'[p] \notin {"send", "record"}
              /\ <<allTickets[p], stats[p], obs[p]>>' # <<allTickets[p], stats[p], obs[p]>>) =>
                /\ allTickets'[p] = Tail(allTickets[p])
                /\ pc'[p] = IF Tail(allTickets[p]) # <<>> THEN "process" ELSE "done"
                /\ runErr'[p] = "nil"
                /\ IF obs'[p].ev.outcome \in EvalErrors
                   THEN stats'[p] = [stats[p] EXCEPT !.Errors = @ + 1]
                   ELSE stats'[p].Errors = stats[p].Errors]_vars

\* C17 witness: a pass over two candidates has returned without error: the
\* evaluation of the first ended in an error, which was counted once, and the second
\* was evaluated, sent and recorded
C17_Witness ==
    \E p \in procs :
        /\ pc[p] = "done"
        /\ runErr[p] = "nil"
        /\ stats[p].TicketsChecked = 2
        /\ stats[p].Errors = 1
        /\ stats[p].NotificationsSent = 1
        /\ obs[p].ev.key = <<2, CategoryOf(2)>>
        /\ obs[p].ev.outcome = StatusSent
        /\ RowsOf(notifications, <<1, CategoryOf(1)>>) = {}
        /\ business_hours_log = <<>>

\* C18: when the fetch of the open or of the pending candidates has failed, Run
\* has returned with that error, no candidate is left to process and none was
\* evaluated, the open ones already fetched included: the run counts nothing as
\* queued, nothing as sent but what the flusher sent, and its only transport calls
\* are the flusher's
C18_FetchFailureAborts ==
    /\ \A p \in procs :
          runErr[p] # "nil" =>
             /\ pc[p] = "done"
             /\ allTickets[p] = <<>>
             /\ obs[p].ev = NoEval
             /\ stats[p].NotificationsQueued = 0
             /\ stats[p].NotificationsSent = sent[p]
             /\ obs[p].flush.state = "none" => obs[p].calls = 0
    /\ \A p \in procs :
          pc[p] \in {"process", "send", "record"} => runErr[p] = "nil"

\* C18 witness: the open fetch returned a candidate, the pending fetch failed, and
\* Run returned the error with the open candidate neither evaluated nor recorded
C18_Witness ==
    \E p \in procs :
        /\ runErr[p] = "failed to get pending tickets"
        /\ stats[p].TicketsChecked = 1
        /\ obs[p].ev = NoEval
        /\ notifications = {}

\* C19: right after a flush that is not dry-run, the run's error counter is at
\* least the number of queued items the flush failed on: the items whose transport
\* send failed and the items that were sent but whose UPDATE to sent failed
C19_FlushFailuresCounted ==
    \A p \in procs :
        (pc[p] = "fetchOpen" /\ obs[p].flush.state = "done" /\ ~cfg.dryRun) =>
            LET failedSends == obs[p].calls - Cardinality(obs[p].flush.delivered)
                failedMarks ==
                    Cardinality({k \in obs[p].flush.delivered :
                                   \E r \in RowsOf(notifications, k) :
                                      r.notification_status = StatusQueued})
            IN stats[p].Errors >= failedSends + failedMarks


\* C20: the ticket snapshot that recordNotification serializes into ticket_data when
\* a ticket is queued deserializes to that same ticket, so the message rendered from
\* it equals the message rendered from the snapshot at queue time; every stored row's
\* ticket_data deserializes to the display fields stored beside it (subject, customer
\* name, assigned agent, minutes waited, ticket, category); and the item the flusher
\* holds deserializes to the snapshot stored for its key, giving the same message.
C20_RowRoundTrips(r) ==
    /\ Wellformed(r.ticket_data)
    /\ LET ticket == Unmarshal(r.ticket_data)
       IN /\ ticket.Subject = r.ticket_subject
          /\ ticket.CustomerName = r.customer_name
          /\ ticket.AssignedUserName = r.assigned_user
          /\ ticket.MinutesSinceReply = r.minutes_waiting
          /\ ticket.ID = r.ticket_id
          /\ ticket.NotificationType = r.notification_type
          /\ ticket.Number = Ticket(r.ticket_id, r.notification_type, 0).Number

C20_FlushedAsStored(p) ==
    (pc[p] \in {"flushItem", "flushMark"} /\ rows[p] # <<>>) =>
        LET item == Head(rows[p])
        IN /\ Wellformed(item.ticket_data)
           /\ \A r \in RowsOf(notifications, <<item.ticket_id, item.notification_type>>) :
                  /\ Unmarshal(item.ticket_data) = Unmarshal(r.ticket_data)
                  /\ formatSlackMessage(Unmarshal(item.ticket_data))
                         = formatSlackMessage(Unmarshal(r.ticket_data))

C20_QueuedAsRendered(p) ==
    (/\ pc[p] = "record"
     /\ pc'[p] # "record"
     /\ TargetStatus(p) = StatusQueued
     /\ notifications' # notifications) =>
        \E r \in RowsOf(notifications', KeyOf(Head(allTickets[p]))) :
            /\ r.notification_status = StatusQueued
            /\ Unmarshal(r.ticket_data) = Head(allTickets[p])
            /\ formatSlackMessage(Unmarshal(r.ticket_data))
                   = formatSlackMessage(Head(allTickets[p]))

C20_SnapshotRoundTrip ==
    /\ [](/\ \A r \in notifications : C20_RowRoundTrips(r)
          /\ \A p \in procs : C20_FlushedAsStored(p))
    /\ [][\A p \in procs : C20_QueuedAsRendered(p)]_vars

\* C20 witness: the flusher has sent a queued item whose subject holds a character
\* json.Marshal escapes, and the item deserializes to the subject stored for its key
C20_Witness ==
    \E p \in procs :
        /\ pc[p] = "flushMark"
        /\ rows[p] # <<>>
        /\ ~cfg.dryRun
        /\ LET item == Head(rows[p])
           IN /\ Wellformed(item.ticket_data)
              /\ \E i \in 1..Len(Unmarshal(item.ticket_data).Subject) :
                     Unmarshal(item.ticket_data).Subject[i] \in HtmlRunes
              /\ Len(Member(item.ticket_data, "Subject"))
                     > Len(Unmarshal(item.ticket_data).Subject) + 2
              /\ \E r \in RowsOf(notifications, <<item.ticket_id, item.notification_type>>) :
                     /\ r.notification_status = StatusQueued
                     /\ r.ticket_subject = Unmarshal(item.ticket_data).Subject


\* the attempts of the SendMessage call in flight that failed: a network error or a
\* status other than the success status
C21_Failed(resp) == resp.err \/ resp.status # StatusOK

C21_AllFailed == \A i \in 1..Len(slack.outcomes) : C21_Failed(slack.outcomes[i])

\* the attempts a client makes at most: none when retryAttempts is not positive
C21_Allowed == IF slack.retryAttempts > 0 THEN slack.retryAttempts ELSE 0

\* C21 as stated: SendMessage makes at most retryAttempts HTTP attempts, returns
\* success as soon as an attempt receives the success status and makes no attempt
\* after it, retries every network error and non-success status, and returns a
\* failure exactly when all retryAttempts attempts have failed.
C21_FailsOnlyWhenExhausted ==
    /\ slack.pc \in {"loop", "returned"} =>
           /\ Len(slack.outcomes) <= slack.retryAttempts
           /\ \A i \in 1..(Len(slack.outcomes) - 1) : C21_Failed(slack.outcomes[i])
    /\ slack.pc = "loop" => C21_AllFailed
    /\ slack.pc = "returned" =>
           /\ slack.result = "nil" <=> (slack.outcomes # <<>> /\ ~C21_AllFailed)
           /\ slack.result # "nil"
                  <=> (C21_AllFailed /\ Len(slack.outcomes) = slack.retryAttempts)

\* C21 amended: SendMessage makes at most retryAttempts HTTP attempts (none when
\* retryAttempts is not positive), returns success as soon as an attempt receives
\* the success status and makes no attempt after it, retries every network error
\* and non-success status, and returns a failure exactly when all those attempts
\* have failed or, at once and without an attempt, when no request can be built
\* from the webhook URL.
C21_FailsWhenExhaustedOrNoRequest ==
    /\ slack.pc \in {"loop", "returned"} =>
           /\ Len(slack.outcomes) <= C21_Allowed
           /\ Len(slack.outcomes) = slack.attempt + (IF slack.result = "nil" THEN 1 ELSE 0)
           /\ \A i \in 1..(Len(slack.outcomes) - 1) : C21_Failed(slack.outcomes[i])
    /\ slack.pc = "loop" => C21_AllFailed
    /\ slack.pc = "returned" =>
           /\ slack.result \in {"nil", "failed", "createError"}
           /\ slack.result = "nil" <=> (slack.outcomes # <<>> /\ ~C21_AllFailed)
           /\ slack.result = "failed"
                  <=> (/\ C21_AllFailed
                       /\ Len(slack.outcomes) = C21_Allowed
                       /\ slack.urlOk \/ C21_Allowed = 0)
           /\ slack.result = "createError"
                  <=> (~slack.urlOk /\ C21_Allowed > 0 /\ slack.outcomes = <<>>)

\* C21 witness: a call that failed after three attempts, one of them a network
\* error and one a response with a status other than the success status
C21_Witness ==
    /\ slack.pc = "returned"
    /\ slack.result = "failed"
    /\ slack.retryAttempts = 3
    /\ Len(slack.outcomes) = 3
    /\ \E i, j \in 1..3 : slack.outcomes[i].err /\ ~slack.outcomes[j].err
    /\ slack.slept = <<1, 4>>


\* where a process stands while sendQueuedNotifications runs
C22_FlushPcs == {"flushQuery", "flushItem", "flushMark"}

C22_FlushBeforeAll(p) ==
    /\ pc[p] \in C22_FlushPcs =>
           /\ isStartOfDay[p]
           /\ allTickets[p] = <<>>
           /\ stats[p].TicketsChecked = 0
           /\ stats[p].NotificationsQueued = 0
           /\ stats[p].NotificationsSent = 0
           /\ obs[p].ev = NoEval
    /\ (isStartOfDay[p] /\ pc[p] \notin C22_FlushPcs \cup {"idle"}) =>
           \/ obs[p].flush.state = "done"
           \/ obs[p].flush.state = "none" /\ stats[p].Errors >= 1
    /\ (pc[p] = "fetchOpen" /\ obs[p].flush.state = "done") =>
           stats[p].NotificationsSent = sent[p]
    /\ (pc[p] \notin {"idle", "fetchOpen"} /\ obs[p].flush.state = "done") =>
           stats[p].NotificationsSent >= sent[p]

C22_FlushSteps(p) ==
    /\ (pc[p] = "idle" /\ pc'[p] # "idle" /\ isStartOfDay'[p]) => pc'[p] = "flushQuery"
    /\ (pc[p] = "flushQuery" /\ pc'[p] \notin C22_FlushPcs) =>
           /\ pc'[p] = "fetchOpen"
           /\ stats'[p] = [stats[p] EXCEPT !.Errors = @ + 1]
           /\ runErr'[p] = "nil"
    /\ (pc[p] = "flushItem" /\ pc'[p] \notin C22_FlushPcs) =>
           /\ pc'[p] = "fetchOpen"
           /\ rows[p] = <<>>
           /\ stats'[p] = [stats[p] EXCEPT !.NotificationsSent = @ + sent[p]]
    /\ pc[p] = "flushMark" => pc'[p] \in C22_FlushPcs

\* C22: in a pass where the start-of-day window holds, the flusher runs to completion
\* before either candidate set is fetched or any ticket is evaluated, the number it
\* returns is added to the run's sent counter, and a failure of the flusher itself
\* adds one to the error counter and the pass goes on to the fetches.
C22_FlushRunsFirst ==
    /\ [](\A p \in procs : C22_FlushBeforeAll(p))
    /\ [][\A p \in procs : C22_FlushSteps(p)]_vars

\* C22 witness: a start-of-day pass whose flusher failed and was counted as one
\* error, and which went on to send and record a ticket
C22_Witness ==
    \E p \in procs :
        /\ isStartOfDay[p]
        /\ pc[p] = "done"
        /\ runErr[p] = "nil"
        /\ obs[p].flush.state = "none"
        /\ stats[p].Errors = 1
        /\ stats[p].NotificationsSent = 1
        /\ obs[p].ev.outcome = StatusSent

\* C22 witness of the counted flush: a start-of-day pass whose flusher sent one
\* notification and whose evaluation sent another
C22_WitnessCounted ==
    \E p \in procs :
        /\ isStartOfDay[p]
        /\ pc[p] = "done"
        /\ obs[p].flush.state = "done"
        /\ sent[p] = 1
        /\ stats[p].NotificationsSent = 2


\* the rows of the store with status queued
C23_Queued(table) == {r \in table : r.notification_status = StatusQueued}

\* the step on which the flusher of p selects its rows: they are records with status
\* queued, each once, as many as there are up to the cap, in ascending queued_at
\* order, and no queued record left out is older than a selected one
C23_Selects(p) ==
    (pc[p] = "flushQuery" /\ pc'[p] = "flushItem") =>
        LET Q == C23_Queued(notifications)
            sel == rows'[p]
            rowOf(i) == CHOOSE r \in Q : /\ r.ticket_id = sel[i].ticket_id
                                         /\ r.notification_type = sel[i].notification_type
        IN /\ Len(sel) = IF Cardinality(Q) < cfg.maxNotifications
                         THEN Cardinality(Q) ELSE cfg.maxNotifications
           /\ \A i \in 1..Len(sel) :
                  \E r \in Q : /\ r.ticket_id = sel[i].ticket_id
                               /\ r.notification_type = sel[i].notification_type
                               /\ r.ticket_data = sel[i].ticket_data
           /\ \A i, j \in 1..Len(sel) :
                  i < j => /\ rowOf(i) # rowOf(j)
                           /\ rowOf(i).queued_at <= rowOf(j).queued_at
           /\ \A r \in Q :
                  (\A i \in 1..Len(sel) : rowOf(i) # r) =>
                      \A i \in 1..Len(sel) : rowOf(i).queued_at <= r.queued_at

\* a step of the flusher of p takes the selected rows in their order and neither
\* sends nor modifies any record but the one at hand
C23_OnlyTheItem(p) ==
    (pc[p] \in {"flushItem", "flushMark"} /\ <<pc[p], rows[p]>>' # <<pc[p], rows[p]>>) =>
        /\ rows[p] = <<>> \/ rows'[p] \in {rows[p], Tail(rows[p])}
        /\ rows[p] = <<>> => notifications' = notifications /\ sends' = sends
        /\ rows[p] # <<>> =>
               LET item == Head(rows[p])
                   key == <<item.ticket_id, item.notification_type>>
               IN /\ \A r \in notifications : r \notin RowsOf(notifications, key)
                                                 => r \in notifications'
                  /\ \A r \in notifications' : r \notin RowsOf(notifications', key)
                                                  => r \in notifications
                  /\ \A k \in Keys : k # key => sends'[k] = sends[k]
                  /\ \A r \in RowsOf(notifications, key) :
                         r.notification_status = StatusQueued

\* C23: a flush processes records with status queued only, oldest queued_at first,
\* at most max-notifications of them; queued records beyond the cap are neither sent
\* nor modified by that flush and remain queued.
C23_FlushOldestWithinCap ==
    /\ [](\A p \in procs :
              /\ sent[p] <= cfg.maxNotifications
              /\ Cardinality(obs[p].flush.delivered) <= cfg.maxNotifications
              /\ pc[p] \in {"flushItem", "flushMark"} => Len(rows[p]) <= cfg.maxNotifications)
    /\ [][\A p \in procs : C23_Selects(p) /\ C23_OnlyTheItem(p)]_vars

\* C23 witness: a flush with a cap of one has returned after sending the older of two
\* queued records; the younger is still queued
C23_Witness ==
    \E p \in procs :
        /\ pc[p] = "fetchOpen"
        /\ obs[p].flush.state = "done"
        /\ cfg.maxNotifications = 1
        /\ sent[p] = 1
        /\ \E r1, r2 \in notifications :
               /\ r1.notification_status = StatusSent
               /\ r1.sent_at = now
               /\ r2.notification_status = StatusQueued
               /\ r1.queued_at # NULL
               /\ r1.queued_at < r2.queued_at


\* C24: in a flush that sends k >= 1 notifications the rate-limit delay is taken
\* exactly k-1 times: between consecutive sends and never after the last.
C24_DelaysBetweenSends ==
    \A p \in procs :
        (obs[p].flush.state = "done" /\ sent[p] >= 1) =>
            obs[p].flush.delays = sent[p] - 1


\* the step of p on which recordNotification writes to a row that exists
C25_UpdatesExisting(p) ==
    /\ pc[p] = "record"
    /\ pc'[p] # "record"
    /\ notifications' # notifications
    /\ RowsOf(notifications, KeyOf(Head(allTickets[p]))) # {}

\* C25: an applied recordNotification on an existing row never changes
\* first_eligible_at and changes only the timestamp matching the target status:
\* target queued sets queued_at to now and leaves sent_at untouched, target sent sets
\* sent_at to now and leaves queued_at untouched.
C25_OnlyMatchingTimestamp ==
    [][\A p \in procs :
         C25_UpdatesExisting(p) =>
             LET key == KeyOf(Head(allTickets[p]))
             IN /\ \A r \in notifications : r \notin RowsOf(notifications, key)
                                               => r \in notifications'
                /\ Cardinality(notifications') = Cardinality(notifications)
                /\ \A r \in RowsOf(notifications, key) :
                       \E u \in RowsOf(notifications', key) :
                           /\ u.id = r.id
                           /\ u.first_eligible_at = r.first_eligible_at
                           /\ u.notification_status = TargetStatus(p)
                           /\ TargetStatus(p) = StatusQueued =>
                                  u.queued_at = now /\ u.sent_at = r.sent_at
                           /\ TargetStatus(p) = StatusSent =>
                                  u.sent_at = now /\ u.queued_at = r.queued_at]_vars

\* C25 witness: a row that was sent earlier has been queued again by an applied
\* update: queued_at is now, sent_at is the earlier send, first_eligible_at the
\* first insert
C25_Witness ==
    \E p \in procs : \E r \in notifications :
        /\ pc[p] \in {"process", "done"}
        /\ obs[p].ev.outcome = StatusQueued
        /\ obs[p].ev.applied
        /\ <<r.ticket_id, r.notification_type>> = obs[p].ev.key
        /\ r.notification_status = StatusQueued
        /\ r.queued_at = now
        /\ r.sent_at # NULL
        /\ r.sent_at < now
        /\ r.first_eligible_at < now


\* the step of p on which recordNotification hits an existing row that the cooldown
\* guard does not protect
C26_HitsUnprotected(p) ==
    /\ pc[p] = "record"
    /\ pc'[p] # "record"
    /\ obs'[p].ev.outcome = TargetStatus(p)
    /\ RowsOf(notifications, KeyOf(Head(allTickets[p]))) # {}
    /\ \A r \in RowsOf(notifications, KeyOf(Head(allTickets[p]))) : UpsertGuard(r, now)

\* C26: when recordNotification hits an existing row that the cooldown guard does
\* not protect, the row afterwards carries the new status and the new value of
\* every denormalized field: subject, customer name, assigned agent, minutes
\* waited, threshold minutes and the serialized ticket snapshot.
C26_AllFieldsRefreshed ==
    [][\A p \in procs :
         C26_HitsUnprotected(p) =>
             LET ticket == Head(allTickets[p])
             IN \A r \in RowsOf(notifications', KeyOf(ticket)) :
                    /\ r.notification_status = TargetStatus(p)
                    /\ r.ticket_subject = ticket.Subject
                    /\ r.customer_name = ticket.CustomerName
                    /\ r.assigned_user = ticket.AssignedUserName
                    /\ r.minutes_waiting = ticket.MinutesSinceReply
                    /\ r.ticket_data = Marshal(ticket)
                    /\ r.threshold_minutes = ThresholdMinutes(ticket)]_vars

\* C26, the fields the statement does update: the status, subject, customer name,
\* assigned agent, minutes waited and the serialized snapshot
C26_ListedFieldsRefreshed ==
    [][\A p \in procs :
         C26_HitsUnprotected(p) =>
             LET ticket == Head(allTickets[p])
             IN \A r \in RowsOf(notifications', KeyOf(ticket)) :
                    /\ r.notification_status = TargetStatus(p)
                    /\ r.ticket_subject = ticket.Subject
                    /\ r.customer_name = ticket.CustomerName
                    /\ r.assigned_user = ticket.AssignedUserName
                    /\ r.minutes_waiting = ticket.MinutesSinceReply
                    /\ r.ticket_data = Marshal(ticket)]_vars


\* the step of p on which shouldSkipTicket answers for a candidate whose record is
\* queued
C27_ObservesQueued(p) ==
    /\ pc[p] = "process"
    /\ obs'[p].ev.outcome \notin {"none", "lookupError"}
    /\ <<pc[p], allTickets[p], obs[p]>>' # <<pc[p], allTickets[p], obs[p]>>
    /\ \E r \in RowsOf(notifications, KeyOf(Head(allTickets[p]))) :
           r.notification_status = StatusQueued

\* the row of the ticket at hand shows the ticket as this pass observed it
C27_ShowsObservation(table, ticket) ==
    \A r \in RowsOf(table, KeyOf(ticket)) :
        /\ r.minutes_waiting = ticket.MinutesSinceReply
        /\ r.ticket_data = Marshal(ticket)

\* C27 as stated: when a ticket whose record is queued is observed as still eligible
\* in a later pass before it has been flushed, the record is updated in place, so the
\* display data of the queued notification is that of the most recent observation.
C27_QueuedUpdatedInPlace ==
    [][\A p \in procs :
         /\ (C27_ObservesQueued(p) /\ allTickets'[p] = Tail(allTickets[p])) =>
                C27_ShowsObservation(notifications', Head(allTickets[p]))
         /\ (/\ pc[p] = "record"
             /\ pc'[p] # "record"
             /\ obs'[p].ev.outcome = TargetStatus(p)
             /\ \E r \in obs[p].ev.pre : r.notification_status = StatusQueued) =>
                C27_ShowsObservation(notifications', Head(allTickets[p]))]_vars

\* C27 amended: when a ticket whose record is queued is observed as still eligible
\* in a later pass before it has been flushed, its evaluation ends in a skip and the
\* record is left untouched (nothing is sent, written or counted), so the display
\* data of a queued notification is that of the observation that queued it, made no
\* later than queued_at, and not that of the most recent one.
C27_QueuedLeftUntouched ==
    /\ [](\A r \in notifications :
              r.notification_status = StatusQueued =>
                  /\ r.minutes_waiting <= MinutesSinceReply(r.ticket_id, r.queued_at)
                  /\ Wellformed(r.ticket_data)
                  /\ Unmarshal(r.ticket_data).MinutesSinceReply = r.minutes_waiting)
    /\ [][\A p \in procs :
            C27_ObservesQueued(p) =>
                /\ obs'[p].ev.outcome = "skipped"
                /\ allTickets'[p] = Tail(allTickets[p])
                /\ pc'[p] \in {"process", "done"}
                /\ notifications' = notifications
                /\ stats' = stats
                /\ sends' = sends]_vars

\* C27 witness: a pass has skipped a ticket it observed a minute after the pass that
\* queued it; the queued record still shows the minutes waited of the first
\* observation
C27_Witness ==
    \E p \in procs : \E r \in notifications :
        /\ obs[p].ev.outcome = "skipped"
        /\ <<r.ticket_id, r.notification_type>> = obs[p].ev.key
        /\ r \in obs[p].ev.pre
        /\ r.notification_status = StatusQueued
        /\ r.queued_at < obs[p].ev.at
        /\ r.minutes_waiting < MinutesSinceReply(r.ticket_id, obs[p].ev.at)


\* instants t and u lie in the same start-of-day window
C28_SameWindow(t, u) ==
    /\ IsStartOfBusinessDay(t)
    /\ IsStartOfBusinessDay(u)
    /\ LocalDate(t) = LocalDate(u)

C29_FlushSent(p) == IF obs[p].flush.state = "done" THEN sent[p] ELSE 0

C29_FlushErrors(p) ==
    IF isStartOfDay[p] /\ obs[p].flush.state = "none" /\ pc[p] \notin {"idle", "flushQuery"}
    THEN 1 ELSE 0

\* the outcomes of the evaluations of the pass of p so far: skipped, sent, queued,
\* failed
C29_Outcomes(p) ==
    <<obs[p].skipped,
      stats[p].NotificationsSent - C29_FlushSent(p),
      stats[p].NotificationsQueued,
      stats[p].Errors - C29_FlushErrors(p)>>

C29_Ended(p) ==
    C29_Outcomes(p)[1] + C29_Outcomes(p)[2] + C29_Outcomes(p)[3] + C29_Outcomes(p)[4]

C29_Accounted(p) ==
    /\ pc[p] = "fetchPending" =>
           stats[p].TicketsChecked = Len(allTickets[p]) /\ C29_Ended(p) = 0
    /\ pc[p] \in {"process", "send", "record"} =>
           stats[p].TicketsChecked = Len(allTickets[p]) + C29_Ended(p)
    /\ (pc[p] = "done" /\ runErr[p] = "nil") =>
           /\ allTickets[p] = <<>>
           /\ stats[p].TicketsChecked = C29_Ended(p)
    /\ \A i \in 1..4 : C29_Outcomes(p)[i] >= 0

C29_OneOutcomeEach(p) ==
    /\ (pc[p] \in {"fetchOpen", "fetchPending"} /\ runErr'[p] = "nil"
        /\ pc'[p] # pc[p]) =>
           /\ stats'[p].TicketsChecked - stats[p].TicketsChecked
                  = Len(allTickets'[p]) - Len(allTickets[p])
           /\ C29_Outcomes(p)' = C29_Outcomes(p)
    /\ (pc[p] \in {"process", "send", "record"}
        /\ <<pc[p], allTickets[p], obs[p]>>' # <<pc[p], allTickets[p], obs[p]>>) =>
           /\ stats'[p].TicketsChecked = stats[p].TicketsChecked
           /\ IF allTickets'[p] = Tail(allTickets[p])
              THEN \E i \in 1..4 :
                       C29_Outcomes(p)' = [C29_Outcomes(p) EXCEPT ![i] = @ + 1]
              ELSE /\ allTickets'[p] = allTickets[p]
                   /\ C29_Outcomes(p)' = C29_Outcomes(p)

\* C29: in every pass that completes, tickets-checked equals the size of the open
\* candidate set plus the size of the pending candidate set, and each candidate
\* contributes to exactly one outcome: skipped (no counter), sent counter +1, queued
\* counter +1 or error counter +1; so tickets-checked = skipped + evaluation sends +
\* queued + evaluation errors.
C29_CheckedEqualsOutcomes ==
    /\ [](\A p \in procs : C29_Accounted(p))
    /\ [][\A p \in procs : C29_OneOutcomeEach(p)]_vars

\* C29 witness: a completed pass over two candidates, one skipped and one failed,
\* after its flusher sent a notification
C29_Witness ==
    \E p \in procs :
        /\ pc[p] = "done"
        /\ runErr[p] = "nil"
        /\ stats[p].TicketsChecked = 2
        /\ C29_Outcomes(p) = <<1, 0, 0, 1>>
        /\ C29_FlushSent(p) = 1


\* the ticket whose message a process is about to send: the candidate at hand at the
\* immediate send, the deserialized snapshot at the flusher's send
C30_Rendered(p) ==
    IF pc[p] = "send" THEN Head(allTickets[p])
    ELSE Unmarshal(Head(rows[p]).ticket_data)

C30_Renders(p) ==
    \/ pc[p] = "send"
    \/ pc[p] = "flushItem" /\ rows[p] # <<>> /\ ~cfg.dryRun

\* the message has the text `part` at position i
C30_HasAt(msg, part, i) ==
    /\ i + Len(part) - 1 <= Len(msg)
    /\ SubSeq(msg, i, i + Len(part) - 1) = part

\* C30: a ticket with no assigned agent is rendered with the explicit "Unassigned"
\* marker in the notification message, following the data path from the ticket
\* source query to formatSlackMessage; a ticket with an assigned agent is rendered
\* with that agent's name.
C30_UnassignedMarked ==
    \A p \in procs :
        C30_Renders(p) =>
            LET ticket == C30_Rendered(p)
                msg == formatSlackMessage(ticket)
            IN IF ticket.AssignedUserID = NULL
               THEN \E i \in 1..Len(msg) : msg[i] = "*Assigned to:* Unassigned\n"
               ELSE \E i \in 1..Len(msg) :
                        C30_HasAt(msg, <<"*Assigned to:* ">> \o ticket.AssignedUserName
                                           \o <<"\n">>, i)

\* C31: formatDuration of m whole minutes is "m minutes" when m < 60; otherwise it shows
\* m div 60 hours and, exactly when m mod 60 is not 0, m mod 60 minutes, each unit in
\* the singular for a count of 1 and in the plural otherwise.
\* (texts are compared part by part: a number's digits, then the unit word with its
\* leading blank; the blank between the two parts closes the hour part)
C31_Hours(h) == IF h = 1 THEN <<"1 hour">> ELSE EncodeInt(h) \o <<" hours">>

C31_HoursThen(h) == IF h = 1 THEN <<"1 hour ">> ELSE EncodeInt(h) \o <<" hours ">>

C31_Minutes(r) == EncodeInt(r) \o <<IF r = 1 THEN " minute" ELSE " minutes">>

C31_Expected(m) ==
    IF m < 60 THEN EncodeInt(m) \o <<" minutes">>
    ELSE IF m % 60 = 0 THEN C31_Hours(m \div 60)
    ELSE C31_HoursThen(m \div 60) \o C31_Minutes(m % 60)

C31_FormatsDuration ==
    duration.minutes # NULL => duration.text = C31_Expected(duration.minutes)

\* C32: a SendMessage call that has returned made at least one attempt, whatever the
\* client's configuration; the health check TestSlackWebhook returns success exactly
\* when the endpoint answered its POST with the success status.
C32_Answered ==
    /\ slack.outcomes # <<>>
    /\ LET last == slack.outcomes[Len(slack.outcomes)]
       IN ~last.err /\ last.status = StatusOK

C32_HealthCheckPosts ==
    slack.pc = "returned" =>
        /\ slack.urlOk => slack.outcomes # <<>>
        /\ slack.healthCheck => (slack.result = "nil" <=> C32_Answered)
        /\ slack.healthCheck => slack.outcomes # <<>>

\* C33: the skip check and the upsert guard agree: when shouldSkipTicket answered
\* do-not-skip for a key that has a record, the recordNotification executed at that
\* same instant on that same record is applied, not dropped by its guard.
C33_RecordsAtDecision(p) ==
    /\ pc[p] = "record"
    /\ obs'[p].ev.outcome \in {StatusSent, StatusQueued}
    /\ obs[p].ev.at = now
    /\ obs[p].ev.pre # {}
    /\ RowsOf(notifications, obs[p].ev.key) = obs[p].ev.pre

C33_GuardAgreesWithSkipCheck ==
    [][\A p \in procs : C33_RecordsAtDecision(p) => obs'[p].ev.applied]_vars

\* pass q, still running, has sent for key k in the evaluation it is in or has just
\* ended, less than the cooldown before instant t
C34_SentByOverlapping(q, k, t) ==
    /\ pc[q] # "idle"
    /\ obs[q].ev.key = k
    /\ obs[q].ev.sends > 0
    /\ sends[k] # NULL
    /\ t < sends[k] + cfg.cooldown

\* C34: when two passes overlap and both evaluate the same eligible key during
\* business hours, the transport is invoked at most once for the key within one
\* cooldown window: no pass sends for a key that an overlapping pass has sent for
\* less than the cooldown ago.
C34_OneSendAcrossPasses ==
    [][\A p \in procs : \A q \in procs \ {p} :
         (pc[p] = "send" /\ pc'[p] = "record" /\ isBusinessHours[p]) =>
             ~C34_SentByOverlapping(q, KeyOf(Head(allTickets[p])), now)]_vars

\* the flusher of p sends the queued notification at the head of its result set
C35_FlushSends(p) == pc[p] = "flushItem" /\ pc'[p] = "flushMark" /\ ~cfg.dryRun

\* the mark-sent UPDATE of p changes the store
C35_MarkWrites(p) == pc[p] = "flushMark" /\ notifications' # notifications

\* C35: when two passes overlap inside the start-of-day window, no queued
\* notification is sent by both flushers: a flusher does not send a record that the
\* other pass's flusher has sent, and a mark-sent update changes only a record that
\* is still queued.
C35_DrainedOnce ==
    [][\A p \in procs :
         LET item == Head(rows[p])
             k == <<item.ticket_id, item.notification_type>>
         IN /\ C35_FlushSends(p) =>
                   \A q \in procs \ {p} : k \notin obs[q].flush.delivered
            /\ C35_MarkWrites(p) =>
                   \A r \in RowsOf(notifications, k) :
                       r.notification_status = StatusQueued]_vars

\* the evaluation step of p sends for the candidate at hand
C36_EvaluationSends(p) == pc[p] = "send" /\ pc'[p] = "record"

\* the key of the candidate p is evaluating
C36_Key(p) == KeyOf(Head(allTickets[p]))

\* C36 as stated: within one start-of-day pass with a cooldown greater than zero, the
\* evaluation step sends neither for a ticket whose queued notification the flusher
\* of the same pass has sent, nor for a ticket whose record is still queued.
C36_NotSentTwiceInPass ==
    [][\A p \in procs :
         (C36_EvaluationSends(p) /\ cfg.cooldown > 0) =>
             /\ C36_Key(p) \notin obs[p].flush.delivered
             /\ \A r \in RowsOf(notifications, C36_Key(p)) :
                    r.notification_status # StatusQueued]_vars

\* C36 amended: within one start-of-day pass the evaluation step sends for a ticket
\* whose queued notification the flusher of the same pass has sent only when at least
\* the cooldown has passed since that send, and never for a ticket whose record is
\* still queued.
C36_NotSentTwiceWithinCooldown ==
    [][\A p \in procs :
         C36_EvaluationSends(p) =>
             /\ C36_Key(p) \in obs[p].flush.delivered =>
                    sends[C36_Key(p)] + cfg.cooldown <= now
             /\ \A r \in RowsOf(notifications, C36_Key(p)) :
                    r.notification_status # StatusQueued]_vars

\* C36 witness: with a cooldown greater than zero, a start-of-day pass whose flusher
\* sent the queued notification of a ticket has evaluated that ticket in the same
\* minute and skipped it
C36_Witness ==
    \E p \in procs :
        /\ cfg.cooldown > 0
        /\ obs[p].ev.key \in obs[p].flush.delivered
        /\ obs[p].ev.outcome = "skipped"
        /\ obs[p].ev.at = sends[obs[p].ev.key]
        /\ \E r \in RowsOf(notifications, obs[p].ev.key) :
               r.notification_status = StatusSent

\* C37: after any sequence of passes every notification record has status queued or
\* sent (pending is never written), every sent record carries a sent_at and every
\* queued record a queued_at.
C37_StatusesAndStamps ==
    \A r \in notifications :
        /\ r.notification_status \in {StatusQueued, StatusSent}
        /\ r.notification_status = StatusSent => r.sent_at # NULL
        /\ r.notification_status = StatusQueued => r.queued_at # NULL

\* C37 witness: the store holds a record that was queued and then flushed, next to
\* a record that is still queued
C37_Witness ==
    \E r, q \in notifications :
        /\ r.notification_status = StatusSent
        /\ r.sent_at # NULL
        /\ r.queued_at # NULL
        /\ q.notification_status = StatusQueued
        /\ q.queued_at # NULL

\* the evaluation step of p calls the transport and the call fails
C38_EvaluationSendFails(p) ==
    pc[p] = "send" /\ obs'[p].ev.outcome = "transportError"

\* the flusher of p calls the transport for the row at hand and the call fails
C38_FlushSendFails(p) ==
    /\ pc[p] = "flushItem"
    /\ obs'[p].calls = obs[p].calls + 1
    /\ obs'[p].flush.delivered = obs[p].flush.delivered

\* the record of the row `item` of a result set is in `table` as it is in the store
\* now, queued, with the snapshot the flusher read, and a flush would select it
C38_StillQueued(table, item) ==
    /\ \E r \in table \cap notifications :
           /\ r.ticket_id = item.ticket_id
           /\ r.notification_type = item.notification_type
           /\ r.notification_status = StatusQueued
           /\ r.queued_at # NULL
           /\ r.ticket_data = item.ticket_data
    /\ \E rs \in QueuedRows(table, cfg.maxNotifications) :
           \E i \in 1..Len(rs) : rs[i] = item

\* C38: a failed transport send leaves the store unchanged and is not counted as
\* sent.  In the evaluation step the failed send writes nothing and adds nothing to
\* the sent and queued counters, the key's records stay as the skip check saw them,
\* and a skip check at that instant still answers do-not-skip.  In the flusher the
\* failed send writes nothing and adds nothing to the number sent, the record stays
\* queued with its queued_at and snapshot and a flush would select it again; the
\* flusher marks a record only after its send succeeded (or was left out in dry-run).
C38_FailedSendLeavesStore ==
    /\ [](\A p \in procs :
            /\ pc[p] = "flushMark" =>
                   <<Head(rows[p]).ticket_id, Head(rows[p]).notification_type>>
                       \in obs[p].flush.delivered
            /\ obs[p].ev.outcome = "transportError" =>
                   /\ RowsOf(notifications, obs[p].ev.key) = obs[p].ev.pre
                   /\ obs[p].ev.at = now =>
                          ~shouldSkipTicket(notifications,
                                            Ticket(obs[p].ev.key[1], obs[p].ev.key[2], now),
                                            now))
    /\ [][\A p \in procs :
            /\ C38_EvaluationSendFails(p) =>
                   /\ notifications' = notifications
                   /\ stats'[p].NotificationsSent = stats[p].NotificationsSent
                   /\ stats'[p].NotificationsQueued = stats[p].NotificationsQueued
            /\ C38_FlushSendFails(p) =>
                   /\ notifications' = notifications
                   /\ sent'[p] = sent[p]
                   /\ pc'[p] = "flushItem"
                   /\ C38_StillQueued(notifications', Head(rows[p]))]_vars

\* C38 witness: the flusher of a pass has called the transport for a queued record
\* and the call failed: nothing counts as sent and the record is still queued
C38_Witness ==
    \E p \in procs :
        /\ pc[p] = "flushItem"
        /\ rows[p] = <<>>
        /\ obs[p].calls = 1
        /\ obs[p].flush.delivered = {}
        /\ sent[p] = 0
        /\ \E r \in notifications :
               r.notification_status = StatusQueued /\ r.sent_at = NULL

\* C38, the evaluation step's case reached: an evaluation has ended in a transport
\* error, no record exists for the key and nothing counts as sent
C38_WitnessEvaluation ==
    \E p \in procs :
        /\ obs[p].ev.outcome = "transportError"
        /\ RowsOf(notifications, obs[p].ev.key) = {}
        /\ stats[p].NotificationsSent = 0

\* the flusher of p is at the UPDATE of the record of key k
C39_FlusherMarks(p, k) ==
    /\ pc[p] = "flushMark"
    /\ <<Head(rows[p]).ticket_id, Head(rows[p]).notification_type>> = k

\* a pass is about to call the transport for key k, from its evaluation step or
\* from its flusher
C39_AboutToSend(p, k) ==
    \/ pc[p] = "send" /\ KeyOf(Head(allTickets[p])) = k
    \/ /\ pc[p] = "flushItem"
       /\ rows[p] # <<>>
       /\ <<Head(rows[p]).ticket_id, Head(rows[p]).notification_type>> = k

\* C39: in passes that do not overlap a queued record is modified only by the
\* flusher: a step that changes or removes a queued record is the flusher's UPDATE of
\* that record, and the evaluation step never sends for a key whose record is queued,
\* in or out of business hours.  With business hours enabled and the start-of-day
\* flush disabled a queued record therefore stays as it is and no pass ever calls the
\* transport for its key.
C39_QueuedOnlyFlushed ==
    [][\A r \in notifications :
         LET k == <<r.ticket_id, r.notification_type>>
         IN r.notification_status = StatusQueued =>
                /\ r \notin notifications' => \E p \in procs : C39_FlusherMarks(p, k)
                /\ \A p \in procs : ~(pc[p] = "send" /\ KeyOf(Head(allTickets[p])) = k)
                /\ (cfg.enabled /\ ~cfg.notifyOnOpen) =>
                       /\ r \in notifications'
                       /\ \A p \in procs : ~C39_AboutToSend(p, k)]_vars

\* C39 witness: business hours are enabled and the start-of-day flush is not; a pass
\* inside business hours has evaluated a ticket whose record is queued and skipped
\* it, and the ticket has never been notified
C39_Witness ==
    \E p \in procs : \E r \in RowsOf(notifications, obs[p].ev.key) :
        /\ cfg.enabled /\ ~cfg.notifyOnOpen
        /\ isBusinessHours[p]
        /\ obs[p].ev.outcome = "skipped"
        /\ r.notification_status = StatusQueued
        /\ r.queued_at < obs[p].ev.at
        /\ sends[obs[p].ev.key] = NULL

\* C40: the retention sweep never deletes a notification that is still waiting to be
\* flushed: no record it deleted was queued with a queued_at within the retention
\* period of the sweep, whatever sent_at the record carried from an earlier cycle.
C40_QueuedSurvivesSweep ==
    \A r \in sweep.deleted :
        ~(/\ r.notification_status = StatusQueued
          /\ r.queued_at # NULL
          /\ ~(r.queued_at < RetentionCutoff(sweep.days, sweep.at)))

====
